---- MODULE Spec2Model ----
(***************************************************************************)
(* Month-stepped projection of the careers of the peritos (src/fluxo.py),  *)
(* under the vacancy-constrained policy (FluxoCaixaStatusQuoStrategy) and  *)
(* the tenure-based policy (FluxoCaixaCenarioStrategy).                    *)
(***************************************************************************)
EXTENDS Integers, Sequences, FiniteSets, TLC

VARIABLES estrategia, cenario, anos, taxa, df_servidores, servidores_atual,
          mes, pc, dados_fluxo, cargo_inicio_mes, passos, df_fluxo, resumo_vpl

vars == <<estrategia, cenario, anos, taxa, df_servidores, servidores_atual,
          mes, pc, dados_fluxo, cargo_inicio_mes, passos, df_fluxo, resumo_vpl>>

(***************************************************************************)
(* Bounds of the model.                                                    *)
(***************************************************************************)
\* largest roster of a run under the vacancy-constrained policy
NumServidores == 3
\* largest roster of a run under the tenure-based policy
NumServidoresTempo == 2
\* largest roster of a status quo run that holds a row without DataBase
NumServidoresSemDataBase == 3
\* horizon (years) of a run under the vacancy-constrained policy
AnosVagas == 2
\* horizon (years) of a run under the tenure-based policy
AnosTempo == 6

(***************************************************************************)
(* Constants of the program.                                               *)
(***************************************************************************)
\* monthly income per rank, in centavos
SALARIOS == [c \in 1..4 |-> CASE c = 1 -> 2773724 [] c = 2 -> 3169935
                              [] c = 3 -> 3566147 [] c = 4 -> 3962358]

CENARIO_A == <<5, 10, 15>>
CENARIO_B == <<4, 8, 15>>

\* the iteration order of the dict is its insertion order
TIPOS == <<"criminal", "bioquimico", "legista", "odonto">>

VAGAS_POR_TIPO == [t \in {"criminal", "bioquimico", "legista", "odonto"} |->
    CASE t = "criminal"   -> <<100, 80, 115, 50>>
      [] t = "bioquimico" -> <<13, 11, 15, 6>>
      [] t = "legista"    -> <<55, 45, 60, 25>>
      [] t = "odonto"     -> <<3, 2, 3, 2>>]

\* a calendar with a promotion month every quarter
MESES_PROMOCAO_Trimestral == {2, 5, 8, 11}

MESES_PROMOCAO == {5, 11}

\* annual discount rate, per mille (0.06)
TAXA == 60

\* a dispatch that knows a third name
ESTRATEGIAS_ComTempo == {"status_quo", "cenario", "tempo"}

\* the names criar_fluxo_caixa dispatches on
ESTRATEGIAS == {"status_quo", "cenario"}

ANOS_APOSENTADORIA == 30

(***************************************************************************)
(* Calendar dates: records [y, m, d]; NaT / None is the date with y = 0.   *)
(***************************************************************************)
NaT == [y |-> 0, m |-> 0, d |-> 0]

IsNaT(a) == a.y = 0

Date(y, m, d) == [y |-> y, m |-> m, d |-> d]

IsLeap(y) == (y % 4 = 0 /\ y % 100 # 0) \/ y % 400 = 0

DaysInMonth(y, m) ==
    IF m = 2 THEN (IF IsLeap(y) THEN 29 ELSE 28)
    ELSE IF m \in {4, 6, 9, 11} THEN 30 ELSE 31

\* days since 1970-01-01 of a civil date (what Timestamp subtraction counts)
DaysFromCivil(a) ==
    LET yy  == IF a.m <= 2 THEN a.y - 1 ELSE a.y
        era == yy \div 400
        yoe == yy - era * 400
        mp  == (a.m + 9) % 12
        doy == (153 * mp + 2) \div 5 + a.d - 1
        doe == yoe * 365 + yoe \div 4 - yoe \div 100 + doy
    IN  era * 146097 + doe - 719468

\* a <= b on Timestamps; any comparison with NaT is False
DateLE(a, b) ==
    /\ ~IsNaT(a) /\ ~IsNaT(b)
    /\ \/ a.y < b.y
       \/ a.y = b.y /\ a.m < b.m
       \/ a.y = b.y /\ a.m = b.m /\ a.d <= b.d

DateLT(a, b) == DateLE(a, b) /\ a # b

\* a + pd.DateOffset(years = n): same month and day, 29 Feb clamped
AddYears(a, n) ==
    IF IsNaT(a) THEN NaT
    ELSE Date(a.y + n, a.m,
              IF a.d > DaysInMonth(a.y + n, a.m)
              THEN DaysInMonth(a.y + n, a.m) ELSE a.d)

INICIO == Date(2025, 7, 1)

\* datas[k] of pd.date_range(inicio, periods = anos * 12, freq = "ME"),
\* k counted from 0: the last day of the k-th month from July 2025
Data(k) ==
    LET t  == INICIO.y * 12 + (INICIO.m - 1) + k
        yy == t \div 12
        mm == (t % 12) + 1
    IN  Date(yy, mm, DaysInMonth(yy, mm))

\* the index k whose month is the month of date a (negative before July 2025)
MesDe(a) == (a.y - INICIO.y) * 12 + (a.m - INICIO.m)

ATIVACAO == Date(2026, 8, 1)

(***************************************************************************)
(* The roster.                                                             *)
(***************************************************************************)
\* a loader that takes the four years from every rank below the top one
CarregarDataBase_AbaixoDoTopo(cargo, promocao) ==
    IF cargo # 4 THEN AddYears(promocao, -4) ELSE promocao

\* DataBase as carregar_servidores derives it
CarregarDataBase(cargo, promocao) ==
    IF cargo # 1 THEN AddYears(promocao, -4) ELSE promocao

Perito(tipo, cargo, promocao, novembro) ==
    [TipoPerito |-> tipo, Cargo |-> cargo, Promocao |-> promocao,
     DataBase |-> CarregarDataBase(cargo, promocao),
     promove_novembro |-> novembro]

\* rows a run under the vacancy-constrained policy draws its roster from
PerfisVagas ==
    { Perito("odonto", 1, Date(2015, 5, 1), FALSE),
      Perito("odonto", 1, Date(2022, 11, 20), FALSE),
      Perito("odonto", 1, Date(2023, 5, 10), FALSE),
      Perito("odonto", 2, Date(2023, 11, 20), FALSE),
      Perito("odonto", 4, Date(2000, 5, 1), FALSE) }

\* rows of the sub-population odonto that a status quo run takes beside a
\* row of another sub-population
PerfisVagasAoLado ==
    { Perito("odonto", 1, Date(2015, 5, 1), FALSE),
      Perito("odonto", 2, Date(2015, 5, 1), FALSE),
      Perito("odonto", 4, Date(2000, 5, 1), FALSE) }

\* rows without DataBase, of the sub-population criminal, which a status
\* quo run takes in the rosters of up to NumServidoresSemDataBase rows
PerfisVagasSemDataBase ==
    { [Perito("criminal", 1, Date(1993, 5, 1), FALSE) EXCEPT !.DataBase = NaT] }

\* rows a run under the tenure-based policy draws its roster from
PerfisTempo ==
    { Perito("criminal", 1, Date(2025, 7, 1), FALSE),
      Perito("criminal", 1, Date(2015, 11, 13), FALSE),
      Perito("criminal", 1, Date(2022, 3, 10), TRUE),
      Perito("legista", 2, Date(2001, 9, 1), FALSE),
      Perito("odonto", 3, Date(1999, 10, 1), FALSE) }

\* flagged rows a run under the tenure-based policy takes alone, as a
\* roster of one row
PerfisAntecipados ==
    { Perito("criminal", 1, Date(2016, 9, 30), TRUE) }

\* rows of the top rank with little service, which a run under the
\* tenure-based policy takes alone
PerfisTempoNoTopo ==
    { Perito("criminal", 4, Date(2024, 5, 1), FALSE) }

\* rows without DataBase a run under the tenure-based policy takes alone
PerfisTempoSemDataBase ==
    { [Perito("legista", 2, Date(2015, 5, 1), FALSE) EXCEPT !.DataBase = NaT] }

\* Matrícula of row i of a roster of n rows: unique, descending in row order
Matricula(i, n) == n + 1 - i

Rosters(perfis, max) ==
    UNION { [1..n -> perfis] : n \in 1..max }

\* the rosters of up to max rows of either set that hold a row of perfis
RostersCom(perfis, outros, max) ==
    { r \in Rosters(perfis \cup outros, max) : \E i \in DOMAIN r : r[i] \in perfis }

ComMatricula(df) ==
    [i \in DOMAIN df |->
        [Matricula |-> Matricula(i, Len(df)), TipoPerito |-> df[i].TipoPerito,
         Cargo |-> df[i].Cargo, Promocao |-> df[i].Promocao,
         DataBase |-> df[i].DataBase,
         promove_novembro |-> df[i].promove_novembro]]

PrepararServidores(df) ==
    [i \in DOMAIN df |->
        [Matricula |-> df[i].Matricula, TipoPerito |-> df[i].TipoPerito,
         Cargo |-> df[i].Cargo, Promocao |-> df[i].Promocao,
         DataBase |-> df[i].DataBase,
         promove_novembro |-> df[i].promove_novembro,
         CargoAtual |-> df[i].Cargo, MesPromocao |-> NaT,
         Aposentado |-> FALSE, DataAposentadoria |-> NaT]]

\* a status quo run that takes the eligibility dates as they come
AjustarElegibilidade_SemAjuste(servs) == servs

\* the status quo run moves the eligibility of the rows of Cargo 1 by 3 years
AjustarElegibilidade(servs) ==
    [i \in DOMAIN servs |->
        IF servs[i].Cargo = 1
        THEN [servs[i] EXCEPT !.Promocao = AddYears(servs[i].Promocao, 3)]
        ELSE servs[i]]

(***************************************************************************)
(* Retirement (the same rule in both strategies).                          *)
(***************************************************************************)
\* a test that asks for more than ANOS_APOSENTADORIA years
Aposentar_MaisDe30(s, data) ==
    IF /\ ~s.Aposentado
       /\ ~IsNaT(s.DataBase)
       /\ data.y - s.DataBase.y > ANOS_APOSENTADORIA
    THEN [s EXCEPT !.Aposentado = TRUE, !.DataAposentadoria = data]
    ELSE s

\* a test that does not skip the rows of no DataBase
Aposentar_SemDataBase(s, data) ==
    IF /\ ~s.Aposentado
       /\ data.y - s.DataBase.y >= ANOS_APOSENTADORIA
    THEN [s EXCEPT !.Aposentado = TRUE, !.DataAposentadoria = data]
    ELSE s

\* one row of _processar_aposentadorias; AnoBase is the year of DataBase
Aposentar(s, data) ==
    IF /\ ~s.Aposentado
       /\ ~IsNaT(s.DataBase)
       /\ data.y - s.DataBase.y >= ANOS_APOSENTADORIA
    THEN [s EXCEPT !.Aposentado = TRUE, !.DataAposentadoria = data]
    ELSE s

AposentarTodos(servs, data) ==
    [i \in DOMAIN servs |-> Aposentar(servs[i], data)]

(***************************************************************************)
(* Vacancy-constrained promotion (status quo).                             *)
(***************************************************************************)
\* servidores_tipo_ativos
AtivosDoTipo(servs, tipo) ==
    { i \in DOMAIN servs : servs[i].TipoPerito = tipo /\ ~servs[i].Aposentado }

\* an occupancy counted over the active rows of every sub-population
Ocupacao_TodosOsTipos(servs, tipo, cargo) ==
    Cardinality({ i \in DOMAIN servs :
                    ~servs[i].Aposentado /\ servs[i].CargoAtual = cargo })

\* ocupacao_atual[cargo]
Ocupacao(servs, tipo, cargo) ==
    Cardinality({ i \in AtivosDoTipo(servs, tipo) : servs[i].CargoAtual = cargo })

\* a run that takes the ceiling for the number of free slots
VagasDisponiveis_SemOcupacao(servs, tipo, cargo_destino) ==
    VAGAS_POR_TIPO[tipo][cargo_destino]

VagasDisponiveis(servs, tipo, cargo_destino) ==
    VAGAS_POR_TIPO[tipo][cargo_destino] - Ocupacao(servs, tipo, cargo_destino)

\* a candidate filter that does not read promovidos_neste_mes
Candidatos_SemPromovidos(servs, tipo, cargo_origem, data, promovidos) ==
    { i \in DOMAIN servs :
        /\ servs[i].CargoAtual = cargo_origem
        /\ DateLE(servs[i].Promocao, data)
        /\ servs[i].TipoPerito = tipo
        /\ ~servs[i].Aposentado }

\* a candidate filter that leaves out the rows that have a last-promotion
\* date
Candidatos_SemJaPromovidos(servs, tipo, cargo_origem, data, promovidos) ==
    { i \in DOMAIN servs :
        /\ servs[i].CargoAtual = cargo_origem
        /\ DateLE(servs[i].Promocao, data)
        /\ servs[i].TipoPerito = tipo
        /\ servs[i].Matricula \notin promovidos
        /\ IsNaT(servs[i].MesPromocao)
        /\ ~servs[i].Aposentado }

Candidatos(servs, tipo, cargo_origem, data, promovidos) ==
    { i \in DOMAIN servs :
        /\ servs[i].CargoAtual = cargo_origem
        /\ DateLE(servs[i].Promocao, data)
        /\ servs[i].TipoPerito = tipo
        /\ servs[i].Matricula \notin promovidos
        /\ ~servs[i].Aposentado }

\* a sort on the Matrícula alone
Precede_SoMatricula(servs, i, j) ==
    servs[i].Matricula < servs[j].Matricula

\* the order of sort_values(["Promoção", "Matrícula"])
Precede(servs, i, j) ==
    \/ DateLT(servs[i].Promocao, servs[j].Promocao)
    \/ /\ servs[i].Promocao = servs[j].Promocao
       /\ servs[i].Matricula < servs[j].Matricula

RECURSIVE OrdenarCandidatos(_, _)
OrdenarCandidatos(servs, cands) ==
    IF cands = {} THEN <<>>
    ELSE LET primeiro == CHOOSE i \in cands :
                            \A j \in cands \ {i} : Precede(servs, i, j)
         IN  <<primeiro>> \o OrdenarCandidatos(servs, cands \ {primeiro})

Min2(a, b) == IF a < b THEN a ELSE b

\* a run that promotes every candidate
NumPromocoes_TodosCandidatos(cands, vagas) == Cardinality(cands)

\* num_promocoes = min(len(candidatos), vagas_disponiveis)
NumPromocoes(cands, vagas) == Min2(Cardinality(cands), vagas)

\* candidatos_ordenados.head(num_promocoes).index
IndicesPromovidos(servs, cands, num_promocoes) ==
    LET ordenados == OrdenarCandidatos(servs, cands)
    IN  { ordenados[k] : k \in 1..num_promocoes }

\* a run that forgets who was promoted in this pass
Bloquear_Nada(servs, indices, promovidos) == promovidos

\* the Matrículas promoted in this step join promovidos_neste_mes
Bloquear(servs, indices, promovidos) ==
    promovidos \cup { servs[i].Matricula : i \in indices }

\* _executar_promocoes: the roster and promovidos_neste_mes after the step
ExecutarPromocoes(servs, tipo, cargo_origem, cargo_destino, vagas, data, promovidos) ==
    LET cands   == Candidatos(servs, tipo, cargo_origem, data, promovidos)
        num     == NumPromocoes(cands, vagas)
        indices == IF num > 0 THEN IndicesPromovidos(servs, cands, num) ELSE {}
    IN  [servs |-> [i \in DOMAIN servs |->
                      IF i \in indices
                      THEN [servs[i] EXCEPT !.CargoAtual = cargo_destino,
                                            !.MesPromocao = data]
                      ELSE servs[i]],
         promovidos |-> Bloquear(servs, indices, promovidos)]

CargosDe(servs) == [i \in DOMAIN servs |-> servs[i].CargoAtual]

\* one iteration of the loop of _promover_tipo_perito; st = [servs,
\* promovidos, passos], passos the record of the steps taken so far
PassoPromocao(st, tipo, cargo_origem, data) ==
    LET cargo_destino == cargo_origem + 1
        depois ==
            IF AtivosDoTipo(st.servs, tipo) = {}
            THEN [servs |-> st.servs, promovidos |-> st.promovidos]
            ELSE IF VagasDisponiveis(st.servs, tipo, cargo_destino) > 0
            THEN ExecutarPromocoes(st.servs, tipo, cargo_origem, cargo_destino,
                     VagasDisponiveis(st.servs, tipo, cargo_destino),
                     data, st.promovidos)
            ELSE [servs |-> st.servs, promovidos |-> st.promovidos]
    IN  [servs |-> depois.servs, promovidos |-> depois.promovidos,
         passos |-> Append(st.passos,
                      [tipo |-> tipo, cargo_origem |-> cargo_origem,
                       antes |-> CargosDe(st.servs),
                       bloqueados |-> st.promovidos,
                       depois |-> CargosDe(depois.servs)])]

\* a pass that walks the ranks from the top
ORDEM_CARGOS_Decrescente == <<3, 2, 1>>

\* for cargo_origem in [1, 2, 3]
ORDEM_CARGOS == <<1, 2, 3>>

PromoverTipoPerito(st, tipo, data) ==
    PassoPromocao(
        PassoPromocao(
            PassoPromocao(st, tipo, ORDEM_CARGOS[1], data),
            tipo, ORDEM_CARGOS[2], data),
        tipo, ORDEM_CARGOS[3], data)

RECURSIVE PromoverTipos(_, _, _)
PromoverTipos(st, k, data) ==
    IF k > Len(TIPOS) THEN st
    ELSE PromoverTipos(PromoverTipoPerito(st, TIPOS[k], data), k + 1, data)

\* _processar_promocoes_por_vagas
PromocoesPorVagas(servs, data) ==
    PromoverTipos([servs |-> servs, promovidos |-> {}, passos |-> <<>>], 1, data)

(***************************************************************************)
(* Tenure-based promotion (cenario).                                       *)
(***************************************************************************)
\* an anniversary test that does not compare the calendar months
EhAniversarioDataBase_QualquerMes(data, base) ==
    data.y > base.y

EhAniversarioDataBase(data, base) ==
    data.m = base.m /\ data.y > base.y

\* service counted to the first day of the month, not to its last
AnosServicoMenorQue_InicioDoMes(data, base, c) ==
    (DaysFromCivil(Date(data.y, data.m, 1)) - DaysFromCivil(base)) * 100 < c * 36525

\* anos_servico < c, with anos_servico = (data - base).days / 365.25
AnosServicoMenorQue(data, base, c) ==
    (DaysFromCivil(data) - DaysFromCivil(base)) * 100 < c * 36525

\* a mapping that does not read the early-promotion flag
DeterminarCargoPorTempo_SemNovembro(data, base, cen, novembro) ==
    IF AnosServicoMenorQue(data, base, cen[1]) THEN 1
    ELSE IF AnosServicoMenorQue(data, base, cen[2]) THEN 2
    ELSE IF AnosServicoMenorQue(data, base, cen[3]) THEN 3
    ELSE 4

\* a mapping whose last branch is a rank above the top one
DeterminarCargoPorTempo_AcimaDoTopo(data, base, cen, novembro) ==
    IF AnosServicoMenorQue(data, base, cen[1]) /\ novembro THEN 2
    ELSE IF AnosServicoMenorQue(data, base, cen[1]) THEN 1
    ELSE IF AnosServicoMenorQue(data, base, cen[2]) THEN 2
    ELSE IF AnosServicoMenorQue(data, base, cen[3]) THEN 3
    ELSE 5

DeterminarCargoPorTempo(data, base, cen, novembro) ==
    IF AnosServicoMenorQue(data, base, cen[1]) /\ novembro THEN 2
    ELSE IF AnosServicoMenorQue(data, base, cen[1]) THEN 1
    ELSE IF AnosServicoMenorQue(data, base, cen[2]) THEN 2
    ELSE IF AnosServicoMenorQue(data, base, cen[3]) THEN 3
    ELSE 4

\* a loop that evaluates a flagged row in the activation month, in the
\* month of its anniversary and in November only
Avaliado_SoAtivacaoENovembro(s, data) ==
    /\ ~s.Aposentado
    /\ ~IsNaT(s.DataBase)
    /\ \/ EhAniversarioDataBase(data, s.DataBase)
       \/ /\ s.promove_novembro
          /\ data.m = 11 \/ (data.y = ATIVACAO.y /\ data.m = ATIVACAO.m)

\* a loop that evaluates a row in the month of its anniversary only
Avaliado_SoAniversario(s, data) ==
    /\ ~s.Aposentado
    /\ ~IsNaT(s.DataBase)
    /\ EhAniversarioDataBase(data, s.DataBase)

\* whether the loop of _processar_promocoes_por_tempo evaluates row s
Avaliado(s, data) ==
    /\ ~s.Aposentado
    /\ ~IsNaT(s.DataBase)
    /\ (EhAniversarioDataBase(data, s.DataBase) \/ s.promove_novembro)

\* a run that sets the expected rank without comparing it
PromoverSeNecessario_SemTeste(s, cargo_esperado, data) ==
    [s EXCEPT !.CargoAtual = cargo_esperado, !.MesPromocao = data]

\* an evaluated row after the "Promover se necessário" test
PromoverSeNecessario(s, cargo_esperado, data) ==
    IF cargo_esperado > s.CargoAtual
    THEN [s EXCEPT !.CargoAtual = cargo_esperado, !.MesPromocao = data]
    ELSE s

\* a policy with no activation date
PromocoesPorTempo_SemAtivacao(servs, data, cen) ==
    [i \in DOMAIN servs |->
        IF Avaliado(servs[i], data)
        THEN PromoverSeNecessario(servs[i],
                 DeterminarCargoPorTempo(data, servs[i].DataBase, cen,
                                         servs[i].promove_novembro),
                 data)
        ELSE servs[i]]

PromocoesPorTempo(servs, data, cen) ==
    IF DateLT(data, ATIVACAO) THEN servs
    ELSE [i \in DOMAIN servs |->
            IF Avaliado(servs[i], data)
            THEN PromoverSeNecessario(servs[i],
                     DeterminarCargoPorTempo(data, servs[i].DataBase, cen,
                                             servs[i].promove_novembro),
                     data)
            ELSE servs[i]]

(***************************************************************************)
(* Emission of the month's income records.                                 *)
(***************************************************************************)
\* a record that carries the rank and the income of the rank the row came
\* with
Registro_CargoOriginal(s, data) ==
    [Matricula |-> s.Matricula, CargoOriginal |-> s.Cargo,
     CargoAtual |-> s.Cargo, Data |-> data,
     Rendimento |-> SALARIOS[s.Cargo], TipoPerito |-> s.TipoPerito,
     MesPromocao |-> s.MesPromocao,
     DataAposentadoria |-> s.DataAposentadoria]

Registro(s, data) ==
    [Matricula |-> s.Matricula, CargoOriginal |-> s.Cargo,
     CargoAtual |-> s.CargoAtual, Data |-> data,
     Rendimento |-> SALARIOS[s.CargoAtual], TipoPerito |-> s.TipoPerito,
     MesPromocao |-> s.MesPromocao,
     DataAposentadoria |-> s.DataAposentadoria]

\* an emission that does not filter the retired rows
EstaAtivo_Todos(s) == TRUE

\* servidores_atual[~servidores_atual["Aposentado"]]
EstaAtivo(s) == ~s.Aposentado

RECURSIVE RegistrosDe(_, _)
RegistrosDe(linhas, data) ==
    IF linhas = <<>> THEN <<>>
    ELSE <<Registro(Head(linhas), data)>> \o RegistrosDe(Tail(linhas), data)

\* an emission that skips the first simulated month
DadosFluxoMensal_SemPrimeiroMes(servs, data) ==
    IF data = Date(2025, 7, 31) THEN <<>>
    ELSE RegistrosDe(SelectSeq(servs, EstaAtivo), data)

\* an emission that takes a row retired in the month for one more record
DadosFluxoMensal_ComAposentadosDoMes(servs, data) ==
    RegistrosDe(SelectSeq(servs,
                    LAMBDA s : EstaAtivo(s) \/ s.DataAposentadoria = data),
                data)

\* _gerar_dados_fluxo_mensal: one record per active row, in row order
DadosFluxoMensal(servs, data) ==
    RegistrosDe(SelectSeq(servs, EstaAtivo), data)

(***************************************************************************)
(* The tables built after the last month (ProcessadorDados).  Amounts are  *)
(* centavos; a rate is per mille a year; a discount factor is a fixed-     *)
(* point number with ESCALA units to 1, rounded to the nearest unit.       *)
(***************************************************************************)
ESCALA == 10^4

\* n / d rounded to the nearest integer, for n >= 0 and d > 0
Arredondar(n, d) == (2 * n + d) \div (2 * d)

\* the Matrículas of the rows of a table
MatriculasDe(tabela) == { tabela[k].Matricula : k \in DOMAIN tabela }

\* the rows of a table of one Matrícula, in the order of the table
GrupoDe(tabela, matricula) ==
    SelectSeq(tabela, LAMBDA r : r.Matricula = matricula)

RECURSIVE Intercalar(_, _)
\* the merge of two sequences sorted by Data, the rows of a first on a tie
Intercalar(a, b) ==
    IF a = <<>> THEN b
    ELSE IF b = <<>> THEN a
    ELSE IF DateLE(a[Len(a)].Data, b[1].Data) THEN a \o b
    ELSE IF DateLE(a[1].Data, b[1].Data)
         THEN <<a[1]>> \o Intercalar(Tail(a), b)
         ELSE <<b[1]>> \o Intercalar(a, Tail(b))

RECURSIVE OrdenarPorData(_)
\* the rows of one Matrícula by Data, rows of equal Data in their order
OrdenarPorData(regs) ==
    IF Len(regs) <= 1 THEN regs
    ELSE LET meio == Len(regs) \div 2
         IN  Intercalar(OrdenarPorData(SubSeq(regs, 1, meio)),
                        OrdenarPorData(SubSeq(regs, meio + 1, Len(regs))))

RECURSIVE OrdenarGrupos(_, _)
OrdenarGrupos(tabela, matriculas) ==
    IF matriculas = {} THEN <<>>
    ELSE LET m == CHOOSE x \in matriculas : \A y \in matriculas : x <= y
         IN  <<OrdenarPorData(GrupoDe(tabela, m))>>
                 \o OrdenarGrupos(tabela, matriculas \ {m})

\* a sort by Data alone that keeps the rows of all Matrículas in one group
SortValues_SemGrupos(tabela) == <<OrdenarPorData(tabela)>>

\* df_fluxo.sort_values(["Matricula", "Data"]), as the sequence of the groups
\* of df_fluxo.groupby("Matricula"): one group for each Matrícula, ascending
SortValues(tabela) == OrdenarGrupos(tabela, MatriculasDe(tabela))

RECURSIVE Concatenar(_)
\* the table of the rows of a sequence of groups
Concatenar(grupos) ==
    IF grupos = <<>> THEN <<>> ELSE Head(grupos) \o Concatenar(Tail(grupos))

RECURSIVE Cumsum_DoFim(_)
\* totals that run from the last row of the column back to each row
Cumsum_DoFim(valores) ==
    IF Len(valores) <= 1 THEN valores
    ELSE LET meio == Len(valores) \div 2
             esq  == Cumsum_DoFim(SubSeq(valores, 1, meio))
             dir  == Cumsum_DoFim(SubSeq(valores, meio + 1, Len(valores)))
         IN  [k \in DOMAIN esq |-> esq[k] + dir[1]] \o dir

RECURSIVE Cumsum(_)
\* the running totals of a column
Cumsum(valores) ==
    IF Len(valores) <= 1 THEN valores
    ELSE LET meio == Len(valores) \div 2
             esq  == Cumsum(SubSeq(valores, 1, meio))
             dir  == Cumsum(SubSeq(valores, meio + 1, Len(valores)))
         IN  esq \o [k \in DOMAIN dir |-> esq[meio] + dir[k]]

\* calcular_valor_acumulado
CalcularValorAcumulado(tabela) ==
    LET grupos == SortValues(tabela)
    IN  Concatenar([g \in DOMAIN grupos |->
            LET grupo     == grupos[g]
                acumulado == Cumsum([k \in DOMAIN grupo |-> grupo[k].Rendimento])
            IN  [k \in DOMAIN grupo |->
                    grupo[k] @@ [ValorAcumulado |-> acumulado[k]]]])

\* a count that takes the months from the start of the origin's year
MesesDesdeInicio_DesdeJaneiro(x, data_inicial) ==
    (x.y - data_inicial.y) * 12 + (x.m - 1)

\* (x.year - data_inicial.year) * 12 + (x.month - data_inicial.month)
MesesDesdeInicio(x, data_inicial) ==
    (x.y - data_inicial.y) * 12 + (x.m - data_inicial.m)

RECURSIVE Potencia(_, _)
\* (1 + taxa / 12) ** meses, for meses >= 0
Potencia(taxa_anual, meses) ==
    IF meses = 0 THEN ESCALA
    ELSE LET metade   == Potencia(taxa_anual, meses \div 2)
             quadrado == Arredondar(metade * metade, ESCALA)
         IN  IF meses % 2 = 0 THEN quadrado
             ELSE Arredondar(quadrado * (12 * 1000 + taxa_anual), 12 * 1000)

\* a factor that compounds the monthly rate instead of discounting by it
FatorDesconto_Capitalizacao(taxa_anual, meses) == Potencia(taxa_anual, meses)

\* 1 / (1 + taxa / 12) ** meses
FatorDesconto(taxa_anual, meses) ==
    Arredondar(ESCALA * ESCALA, Potencia(taxa_anual, meses))

\* Rendimento * FatorDesconto
ValorPresente(rendimento, fator) ==
    (rendimento \div ESCALA) * fator
        + Arredondar((rendimento % ESCALA) * fator, ESCALA)

\* calcular_vpl
CalcularVpl(tabela, data_inicial, taxa_anual) ==
    LET colunas == [k \in DOMAIN tabela |->
                      LET meses == MesesDesdeInicio(tabela[k].Data, data_inicial)
                          fator == FatorDesconto(taxa_anual, meses)
                      IN  tabela[k] @@
                          [MesesDesdeInicio |-> meses,
                           FatorDesconto    |-> fator,
                           ValorPresente    |-> ValorPresente(tabela[k].Rendimento,
                                                              fator)]]
        grupos  == SortValues(colunas)
    IN  Concatenar([g \in DOMAIN grupos |->
            LET grupo     == grupos[g]
                acumulado == Cumsum([k \in DOMAIN grupo |-> grupo[k].ValorPresente])
            IN  [k \in DOMAIN grupo |->
                    grupo[k] @@ [VPL_Acumulado |-> acumulado[k]]]])

\* a count of the ranks risen between the first and the last record
NumeroPromocoes_Degraus(grupo) ==
    grupo[Len(grupo)].CargoAtual - grupo[1].CargoOriginal

\* x.dropna().nunique() of the MesPromocao of a group
NumeroPromocoes(grupo) ==
    Cardinality({ grupo[k].MesPromocao : k \in DOMAIN grupo } \ {NaT})

\* the "first" aggregation: the first value of the group that is not null
PrimeiraData(datas) ==
    LET validas == SelectSeq(datas, LAMBDA a : ~IsNaT(a))
    IN  IF validas = <<>> THEN NaT ELSE Head(validas)

\* the row of the summary of one group of df_fluxo
ResumoDoGrupo(grupo) ==
    LET primeiro == grupo[1]
        ultimo   == grupo[Len(grupo)]
    IN  [Matricula            |-> primeiro.Matricula,
         CargoOriginal        |-> primeiro.CargoOriginal,
         CargoAtual           |-> ultimo.CargoAtual,
         TipoPerito           |-> primeiro.TipoPerito,
         VPL_Total            |-> ultimo.VPL_Acumulado,
         ValorNominal_Total   |-> ultimo.ValorAcumulado,
         NumeroPromocoes      |-> NumeroPromocoes(grupo),
         DataAposentadoria    |->
             PrimeiraData([k \in DOMAIN grupo |-> grupo[k].DataAposentadoria]),
         DiferencaNominal_VPL |-> ultimo.ValorAcumulado - ultimo.VPL_Acumulado]

RECURSIVE ResumoDosGrupos(_, _)
ResumoDosGrupos(tabela, matriculas) ==
    IF matriculas = {} THEN <<>>
    ELSE LET m == CHOOSE x \in matriculas : \A y \in matriculas : x <= y
         IN  <<ResumoDoGrupo(GrupoDe(tabela, m))>>
                 \o ResumoDosGrupos(tabela, matriculas \ {m})

\* criar_resumo_vpl: df_fluxo.groupby("Matricula").agg(...).reset_index()
CriarResumoVpl(tabela) == ResumoDosGrupos(tabela, MatriculasDe(tabela))

\* df_fluxo[df_fluxo["DataAposentadoria"].notna()]
ComDataAposentadoria(tabela) ==
    SelectSeq(tabela, LAMBDA r : ~IsNaT(r.DataAposentadoria))

\* aposentados.groupby("Matricula").first(), with AnoAposentadoria
PrimeiroPorMatricula(aposentados) ==
    { LET grupo == GrupoDe(aposentados, m)
      IN  [Matricula |-> m,
           TipoPerito |-> grupo[1].TipoPerito,
           CargoAtual |-> grupo[1].CargoAtual,
           AnoAposentadoria |-> grupo[1].DataAposentadoria.y]
      : m \in MatriculasDe(aposentados) }

\* criar_analise_aposentadorias: the empty frame when no record has a
\* retirement date, else the counts by (year, sub-population, rank) and the
\* totals by year
CriarAnaliseAposentadorias(tabela) ==
    LET aposentados == ComDataAposentadoria(tabela)
        primeiros   == PrimeiroPorMatricula(aposentados)
    IN  IF Len(aposentados) = 0 THEN <<>>
        ELSE << { [AnoAposentadoria |-> a.AnoAposentadoria,
                   TipoPerito |-> a.TipoPerito, CargoAtual |-> a.CargoAtual,
                   NumeroAposentadorias |->
                       Cardinality({ b \in primeiros :
                           /\ b.AnoAposentadoria = a.AnoAposentadoria
                           /\ b.TipoPerito = a.TipoPerito
                           /\ b.CargoAtual = a.CargoAtual })]
                  : a \in primeiros },
                { [AnoAposentadoria |-> a.AnoAposentadoria,
                   TotalAposentadorias |->
                       Cardinality({ b \in primeiros :
                           b.AnoAposentadoria = a.AnoAposentadoria })]
                  : a \in primeiros } >>

(***************************************************************************)
(* The run: criar_fluxo_caixa and the criar_fluxo of either strategy.       *)
(***************************************************************************)
\* criar_fluxo_caixa(df_servidores, anos, "status_quo", None, taxa)
InitStatusQuo ==
    /\ estrategia = "status_quo"
    /\ cenario = <<>>
    /\ anos = AnosVagas
    /\ df_servidores \in
         { ComMatricula(r) : r \in Rosters(PerfisVagas, NumServidores)
                                      \cup RostersCom(PerfisVagasSemDataBase, PerfisVagasAoLado,
                                                      NumServidoresSemDataBase) }

\* criar_fluxo_caixa(df_servidores, anos, "cenario", cenario, taxa)
InitCenario ==
    /\ estrategia = "cenario"
    /\ cenario \in {CENARIO_A, CENARIO_B}
    /\ anos = AnosTempo
    /\ df_servidores \in
         { ComMatricula(r) : r \in Rosters(PerfisTempo, NumServidoresTempo)
                                      \cup Rosters(PerfisAntecipados, 1)
                                      \cup Rosters(PerfisTempoNoTopo, 1)
                                      \cup Rosters(PerfisTempoSemDataBase, 1) }

\* a range of one month more than the horizon
Periodos_UmMesAMais(a) == a * 12 + 1

\* datas = pd.date_range(inicio, periods=anos * 12, freq="ME")
Periodos(a) == a * 12

\* a call with a name that is no key of the dict estrategias
InitEstrategiaDesconhecida ==
    /\ estrategia = "tempo"
    /\ cenario \in {<<>>, CENARIO_A}
    /\ anos = AnosTempo
    /\ df_servidores \in { ComMatricula(r) : r \in Rosters(PerfisTempo, NumServidoresTempo) }

\* rates a run discounts with: the least, the default and the greatest of
\* the application's slider
TAXAS == {10, TAXA, 150}

\* the rosters of one row run with every rate, the others with the default
InitTaxa ==
    taxa \in IF Len(df_servidores) = 1 THEN TAXAS ELSE {TAXA}

Init ==
    /\ InitStatusQuo \/ InitCenario \/ InitEstrategiaDesconhecida
    /\ InitTaxa
    /\ servidores_atual = <<>>
    /\ mes = 0
    /\ pc = "entrada"
    /\ dados_fluxo = <<>>
    /\ cargo_inicio_mes = <<>>
    /\ passos = <<>>
    /\ df_fluxo = <<>>
    /\ resumo_vpl = <<>>

\* if estrategia not in estrategias: raise ValueError(...)
EstrategiaNaoEncontrada ==
    /\ pc = "entrada"
    /\ estrategia \notin ESTRATEGIAS
    /\ pc' = "erro"
    /\ UNCHANGED <<estrategia, cenario, anos, taxa, df_servidores, servidores_atual,
                   mes, dados_fluxo, cargo_inicio_mes, passos, df_fluxo,
                   resumo_vpl>>

\* the frame of the caller once the run has prepared and adjusted its own
\* servidores = df_servidores.copy(), a new object
DfServidoresAposPreparar_SemCopy(df, servidores) ==
    [i \in DOMAIN df |-> [df[i] EXCEPT !.Promocao = servidores[i].Promocao]]

DfServidoresAposPreparar(df, servidores) == df

\* the head of criar_fluxo, up to the loop over the months
CriarFluxo ==
    /\ pc = "entrada"
    /\ estrategia \in ESTRATEGIAS
    /\ servidores_atual' =
           IF estrategia = "status_quo"
           THEN AjustarElegibilidade(PrepararServidores(df_servidores))
           ELSE PrepararServidores(df_servidores)
    /\ df_servidores' = DfServidoresAposPreparar(df_servidores, servidores_atual')
    /\ cargo_inicio_mes' = CargosDe(servidores_atual')
    /\ pc' = IF Periodos(anos) > 0 THEN "aposentar" ELSE "fim"
    /\ UNCHANGED <<estrategia, cenario, anos, taxa, mes, dados_fluxo, passos,
                   df_fluxo, resumo_vpl>>

\* servidores_atual = self._processar_aposentadorias(servidores_atual, data)
ProcessarAposentadorias ==
    /\ pc = "aposentar"
    /\ servidores_atual' = AposentarTodos(servidores_atual, Data(mes))
    /\ pc' = "promover"
    /\ UNCHANGED <<estrategia, cenario, anos, taxa, df_servidores, mes, dados_fluxo,
                   cargo_inicio_mes, passos, df_fluxo, resumo_vpl>>

\* if data.month in MESES_PROMOCAO: _processar_promocoes_por_vagas
ProcessarPromocoesPorVagas ==
    /\ pc = "promover"
    /\ estrategia = "status_quo"
    /\ Data(mes).m \in MESES_PROMOCAO
    /\ LET st == PromocoesPorVagas(servidores_atual, Data(mes))
       IN  /\ servidores_atual' = st.servs
           /\ passos' = st.passos
    /\ pc' = "gerar"
    /\ UNCHANGED <<estrategia, cenario, anos, taxa, df_servidores, mes, dados_fluxo,
                   cargo_inicio_mes, df_fluxo, resumo_vpl>>

\* a month of the status quo run that is no promotion month
SemPromocoes ==
    /\ pc = "promover"
    /\ estrategia = "status_quo"
    /\ Data(mes).m \notin MESES_PROMOCAO
    /\ passos' = <<>>
    /\ pc' = "gerar"
    /\ UNCHANGED <<estrategia, cenario, anos, taxa, df_servidores, servidores_atual,
                   mes, dados_fluxo, cargo_inicio_mes, df_fluxo, resumo_vpl>>

\* servidores_atual = self._processar_promocoes_por_tempo(...)
ProcessarPromocoesPorTempo ==
    /\ pc = "promover"
    /\ estrategia = "cenario"
    /\ servidores_atual' = PromocoesPorTempo(servidores_atual, Data(mes), cenario)
    /\ pc' = "gerar"
    /\ UNCHANGED <<estrategia, cenario, anos, taxa, df_servidores, mes, dados_fluxo,
                   cargo_inicio_mes, passos, df_fluxo, resumo_vpl>>

\* dados_fluxo.extend(self._gerar_dados_fluxo_mensal(servidores_atual, data))
GerarDadosFluxoMensal ==
    /\ pc = "gerar"
    /\ dados_fluxo' = dados_fluxo \o DadosFluxoMensal(servidores_atual, Data(mes))
    /\ mes' = mes + 1
    /\ pc' = IF mes + 1 < Periodos(anos) THEN "aposentar" ELSE "fim"
    /\ cargo_inicio_mes' = CargosDe(servidores_atual)
    /\ UNCHANGED <<estrategia, cenario, anos, taxa, df_servidores, servidores_atual,
                   passos, df_fluxo, resumo_vpl>>

\* the tail of criar_fluxo: df_fluxo and resumo_vpl, returned to the caller
CalcularResultados ==
    /\ pc = "fim"
    /\ dados_fluxo # <<>>
    /\ df_fluxo' = CalcularVpl(CalcularValorAcumulado(dados_fluxo), INICIO, taxa)
    /\ resumo_vpl' = CriarResumoVpl(df_fluxo')
    /\ pc' = "retorno"
    /\ UNCHANGED <<estrategia, cenario, anos, taxa, df_servidores,
                   servidores_atual, mes, dados_fluxo, cargo_inicio_mes, passos>>

\* pd.DataFrame([]) has no column: sort_values(["Matricula", "Data"]) raises
FluxoVazio ==
    /\ pc = "fim"
    /\ dados_fluxo = <<>>
    /\ pc' = "erro"
    /\ UNCHANGED <<estrategia, cenario, anos, taxa, df_servidores, servidores_atual,
                   mes, dados_fluxo, cargo_inicio_mes, passos, df_fluxo,
                   resumo_vpl>>

Next ==
    \/ EstrategiaNaoEncontrada
    \/ CriarFluxo
    \/ ProcessarAposentadorias
    \/ ProcessarPromocoesPorVagas
    \/ SemPromocoes
    \/ ProcessarPromocoesPorTempo
    \/ GerarDadosFluxoMensal
    \/ CalcularResultados
    \/ FluxoVazio

Spec == Init /\ [][Next]_vars

(***************************************************************************)
(* criar_fluxo as a function of the horizon: what the call returns for the *)
(* roster, the policy, the thresholds and the rate of the run, with        *)
(* another number of years.                                                *)
(***************************************************************************)
\* servidores_atual before the loop over the months
ServidoresIniciais(df, nome) ==
    IF nome = "status_quo"
    THEN AjustarElegibilidade(PrepararServidores(df))
    ELSE PrepararServidores(df)

\* the promotion step of month k of either criar_fluxo
PromoverNoMes(servs, nome, cen, k) ==
    IF nome = "status_quo"
    THEN IF Data(k).m \in MESES_PROMOCAO
         THEN PromocoesPorVagas(servs, Data(k)).servs
         ELSE servs
    ELSE PromocoesPorTempo(servs, Data(k), cen)

RECURSIVE MesesDoFluxo(_, _, _, _, _)
\* for data in datas: the records of the months k .. n - 1
MesesDoFluxo(servs, nome, cen, k, n) ==
    IF k >= n THEN <<>>
    ELSE LET depois == PromoverNoMes(AposentarTodos(servs, Data(k)), nome, cen, k)
         IN  DadosFluxoMensal(depois, Data(k))
                 \o MesesDoFluxo(depois, nome, cen, k + 1, n)

\* df_fluxo of criar_fluxo_caixa(df, h, nome, cen, taxa_anual); <<>> stands
\* for the call that raises on an empty stream
FluxoDe(df, h, nome, cen, taxa_anual) ==
    LET dados == MesesDoFluxo(ServidoresIniciais(df, nome), nome, cen, 0, Periodos(h))
    IN  IF dados = <<>> THEN <<>>
        ELSE CalcularVpl(CalcularValorAcumulado(dados), INICIO, taxa_anual)

(***************************************************************************)
(* Calls criar_fluxo_caixa checks nothing of: thresholds that do not       *)
(* ascend, a negative rate, a TipoPerito that is no key of VAGAS_POR_TIPO. *)
(***************************************************************************)
\* cenario=[10, 5, 15]: a list _determinar_cargo_por_tempo reads as it comes
CENARIO_NAO_CRESCENTE == <<10, 5, 15>>

\* taxa=-0.06
TAXA_NEGATIVA == 0 - TAXA

\* a row whose TipoPerito is no key of VAGAS_POR_TIPO
PeritoSemTeto == Perito("papiloscopista", 1, Date(2015, 5, 1), FALSE)

\* criar_fluxo_caixa(df, anos, "cenario", [10, 5, 15], taxa)
InitCenarioNaoCrescente ==
    /\ estrategia = "cenario"
    /\ cenario = CENARIO_NAO_CRESCENTE
    /\ anos = AnosTempo
    /\ df_servidores \in { ComMatricula(r) : r \in Rosters(PerfisTempo, 1) }
    /\ taxa = TAXA

\* criar_fluxo_caixa(df, anos, estrategia, cenario, -0.06)
InitTaxaNegativa ==
    /\ \/ estrategia = "status_quo" /\ cenario = <<>>
       \/ estrategia = "cenario" /\ cenario = CENARIO_A
       \/ estrategia = "tempo" /\ cenario = CENARIO_A
    /\ anos = AnosVagas
    /\ df_servidores \in { ComMatricula(r) : r \in Rosters(PerfisVagas, 1) }
    /\ taxa = TAXA_NEGATIVA

\* criar_fluxo_caixa(df, anos, "status_quo", None, taxa) with a roster that
\* holds a row of a TipoPerito without ceilings
InitPeritoSemTeto ==
    /\ estrategia = "status_quo"
    /\ cenario = <<>>
    /\ anos = AnosVagas
    /\ df_servidores \in
         { ComMatricula(r) :
             r \in { x \in Rosters({ PeritoSemTeto,
                                     Perito("odonto", 1, Date(2015, 5, 1), FALSE),
                                     Perito("odonto", 2, Date(2015, 5, 1), FALSE) }, 2) :
                       \E i \in DOMAIN x : x[i] = PeritoSemTeto } }
    /\ taxa = TAXA

InitEntradaInvalida ==
    /\ InitCenarioNaoCrescente \/ InitTaxaNegativa \/ InitPeritoSemTeto
    /\ servidores_atual = <<>>
    /\ mes = 0
    /\ pc = "entrada"
    /\ dados_fluxo = <<>>
    /\ cargo_inicio_mes = <<>>
    /\ passos = <<>>
    /\ df_fluxo = <<>>
    /\ resumo_vpl = <<>>

SpecEntradaInvalida == InitEntradaInvalida /\ [][Next]_vars

(***************************************************************************)
(* Properties.                                                             *)
(***************************************************************************)
Linhas == DOMAIN servidores_atual

TiposComTeto == DOMAIN VAGAS_POR_TIPO

Max2(a, b) == IF a > b THEN a ELSE b

\* the rows of the input roster at a rank of a sub-population
OcupacaoInicial(tipo, cargo) ==
    Cardinality({ i \in DOMAIN df_servidores :
                    df_servidores[i].TipoPerito = tipo /\ df_servidores[i].Cargo = cargo })

\* C1 as stated: under the vacancy policy the active occupancy of every
\* (sub-population, rank) is at most its configured ceiling in every month
\* (read when the month's records are emitted).
C1_TetoRespeitado ==
    (estrategia = "status_quo" /\ pc = "gerar") =>
        \A t \in TiposComTeto : \A c \in 1..4 :
            Ocupacao(servidores_atual, t, c) <= VAGAS_POR_TIPO[t][c]

\* C1 amended: under the vacancy policy the active occupancy of every
\* (sub-population, rank) is at most the larger of its ceiling and the
\* number of rows the input roster has at that rank.
C1_TetoOuOcupacaoInicial ==
    estrategia = "status_quo" =>
        \A t \in TiposComTeto : \A c \in 1..4 :
            Ocupacao(servidores_atual, t, c)
                <= Max2(VAGAS_POR_TIPO[t][c], OcupacaoInicial(t, c))

\* a rank filled to its ceiling by promotions, with a candidate left below
C1_Witness ==
    /\ estrategia = "status_quo"
    /\ pc = "gerar"
    /\ \E i \in Linhas : \E j \in Linhas :
        LET s == servidores_atual[i]
            w == servidores_atual[j]
        IN  /\ s.CargoAtual > s.Cargo
            /\ s.MesPromocao = Data(mes)
            /\ Ocupacao(servidores_atual, s.TipoPerito, s.CargoAtual)
                 = VAGAS_POR_TIPO[s.TipoPerito][s.CargoAtual]
            /\ OcupacaoInicial(s.TipoPerito, s.CargoAtual)
                 < VAGAS_POR_TIPO[s.TipoPerito][s.CargoAtual]
            /\ w.TipoPerito = s.TipoPerito
            /\ ~w.Aposentado
            /\ w.CargoAtual = s.CargoAtual - 1
            /\ DateLE(w.Promocao, Data(mes))
            /\ w.MesPromocao # Data(mes)

\* C2: under either policy no step lowers a rank: every row's rank is at
\* least the rank it had at the end of the previous month, and at least
\* its original rank.
C2_CargoMonotonico ==
    \A i \in Linhas :
        /\ servidores_atual[i].CargoAtual >= cargo_inicio_mes[i]
        /\ cargo_inicio_mes[i] >= servidores_atual[i].Cargo

\* the expected rank by tenure of a row in the month being processed
CargoEsperado(s) ==
    DeterminarCargoPorTempo(Data(mes), s.DataBase, cenario, s.promove_novembro)

\* a row evaluated by the tenure policy whose expected rank is below its rank
C2_Witness ==
    /\ estrategia = "cenario"
    /\ pc = "gerar"
    /\ ~DateLT(Data(mes), ATIVACAO)
    /\ \E i \in Linhas :
        /\ Avaliado(servidores_atual[i], Data(mes))
        /\ CargoEsperado(servidores_atual[i]) < cargo_inicio_mes[i]
        /\ servidores_atual[i].CargoAtual = cargo_inicio_mes[i]

RegistrosDaMatricula(matricula) ==
    { k \in 1..Len(dados_fluxo) : dados_fluxo[k].Matricula = matricula }

\* C4 (state part): a retired row has a retirement date, no income record
\* dated at or after it, and is neither a candidate of a vacancy step nor
\* evaluated by the tenure policy.
C4_AposentadoSemRenda ==
    \A i \in Linhas :
        LET s == servidores_atual[i]
        IN  s.Aposentado =>
              /\ ~IsNaT(s.DataAposentadoria)
              /\ \A k \in RegistrosDaMatricula(s.Matricula) :
                    /\ DateLT(dados_fluxo[k].Data, s.DataAposentadoria)
                    /\ IsNaT(dados_fluxo[k].DataAposentadoria)
              /\ \A t \in TiposComTeto : \A c \in 1..3 :
                    i \notin Candidatos(servidores_atual, t, c, Data(mes), {})
              /\ ~Avaliado(s, Data(mes))

\* C4 (step part): no step changes a retired row (flag, retirement date,
\* rank, last-promotion date) or emits a record for it.
C4_AposentadoCongelado ==
    \A i \in Linhas :
        servidores_atual[i].Aposentado =>
            /\ servidores_atual'[i] = servidores_atual[i]
            /\ \A k \in (Len(dados_fluxo) + 1)..Len(dados_fluxo') :
                  dados_fluxo'[k].Matricula # servidores_atual[i].Matricula

\* C4: retirement is terminal under both policies: once retired, a row
\* stays retired with the same retirement date, rank and last-promotion
\* date, is never a promotion candidate, and gets no income record for the
\* retirement month or any later month.
C4_AposentadoriaTerminal ==
    [](C4_AposentadoSemRenda) /\ [][C4_AposentadoCongelado]_vars

\* a row that drew income, retired, and saw another row promoted later
C4_Witness ==
    \E i \in Linhas : \E j \in Linhas :
        LET s == servidores_atual[i]
            w == servidores_atual[j]
        IN  /\ s.Aposentado
            /\ RegistrosDaMatricula(s.Matricula) # {}
            /\ DateLT(s.DataAposentadoria, w.MesPromocao)
            /\ \E k \in RegistrosDaMatricula(w.Matricula) :
                  DateLT(s.DataAposentadoria, dados_fluxo[k].Data)

(***************************************************************************)
(* The steps of the vacancy pass of the month, read from passos when the   *)
(* month's records are about to be emitted.                                *)
(***************************************************************************)
AposPasse == estrategia = "status_quo" /\ pc = "gerar" /\ passos # <<>>

\* the rows whose rank the step changed
PromovidosNoPasso(p) == { i \in Linhas : p.depois[i] # p.antes[i] }

\* the candidates of a step as the specification words them: active rows of
\* the sub-population at rank r when the step starts, eligible by the date
\* of the month, not promoted earlier in the pass
CandidatosDoPasso(p) ==
    { i \in Linhas :
        LET s == servidores_atual[i]
        IN  /\ s.TipoPerito = p.tipo
            /\ ~s.Aposentado
            /\ p.antes[i] = p.cargo_origem
            /\ DateLE(s.Promocao, Data(mes))
            /\ s.Matricula \notin p.bloqueados }

\* ceiling(r+1) - active occupancy(r+1) when the step starts
SlotsDoPasso(p) ==
    VAGAS_POR_TIPO[p.tipo][p.cargo_origem + 1]
      - Cardinality({ i \in Linhas :
            /\ servidores_atual[i].TipoPerito = p.tipo
            /\ ~servidores_atual[i].Aposentado
            /\ p.antes[i] = p.cargo_origem + 1 })

\* (eligibility date, Matrícula) of row i before that of row j
AntesNaOrdem(i, j) ==
    LET a == servidores_atual[i]
        b == servidores_atual[j]
    IN  \/ DaysFromCivil(a.Promocao) < DaysFromCivil(b.Promocao)
        \/ /\ DaysFromCivil(a.Promocao) = DaysFromCivil(b.Promocao)
           /\ a.Matricula < b.Matricula

\* C5: in each step r -> r+1 of a vacancy pass the promoted rows are
\* candidates, they are the first min(|candidates|, slots) of the order
\* (eligibility date, Matrícula): no unpromoted candidate precedes a
\* promoted one, and they move to rank r+1.
C5_PrimeirosDaOrdem ==
    AposPasse =>
        \A k \in DOMAIN passos :
            LET p == passos[k]
                P == PromovidosNoPasso(p)
                C == CandidatosDoPasso(p)
            IN  /\ P \subseteq C
                /\ \A a \in P : \A b \in C \ P : AntesNaOrdem(a, b)
                /\ \A a \in P : p.depois[a] = p.cargo_origem + 1
                /\ Cardinality(P) = Min2(Cardinality(C), Max2(0, SlotsDoPasso(p)))

\* two candidates with the same eligibility date and one slot: the lower
\* Matrícula, which is the later row, is promoted and the other stays
C5_Witness ==
    /\ AposPasse
    /\ \E k \in DOMAIN passos :
        LET p == passos[k]
            P == PromovidosNoPasso(p)
            C == CandidatosDoPasso(p)
        IN  /\ SlotsDoPasso(p) = 1
            /\ \E a \in P : \E b \in C \ P :
                /\ servidores_atual[a].Promocao = servidores_atual[b].Promocao
                /\ servidores_atual[a].Matricula < servidores_atual[b].Matricula
                /\ a > b
                /\ servidores_atual[b].CargoAtual = p.cargo_origem

\* the active rows of a sub-population that held a rank when the pass began
NoCargoAntesDoPasse(t, cargo) ==
    { i \in Linhas :
        /\ servidores_atual[i].TipoPerito = t
        /\ ~servidores_atual[i].Aposentado
        /\ passos[1].antes[i] = cargo }

\* the case of C6: rank 2 of the sub-population at its ceiling before the
\* pass, a 2 -> 3 promotion during the pass, an eligible rank-1 candidate
C6_Caso(t) ==
    /\ Cardinality(NoCargoAntesDoPasse(t, 2)) = VAGAS_POR_TIPO[t][2]
    /\ \E i \in NoCargoAntesDoPasse(t, 2) : servidores_atual[i].CargoAtual = 3
    /\ \E j \in NoCargoAntesDoPasse(t, 1) :
          DateLE(servidores_atual[j].Promocao, Data(mes))

\* C6 as stated: in that case an eligible rank-1 candidate is promoted to
\* rank 2 in the same pass (the freed slot is backfilled).
C6_VagaReocupadaNoMesmoPasse ==
    AposPasse =>
        \A t \in TiposComTeto :
            C6_Caso(t) =>
                \E j \in NoCargoAntesDoPasse(t, 1) :
                    /\ DateLE(servidores_atual[j].Promocao, Data(mes))
                    /\ servidores_atual[j].CargoAtual = 2

\* C6 amended: in that case no rank-1 row of the sub-population is promoted
\* in the pass, because the 1 -> 2 step runs before the 2 -> 3 step and
\* finds rank 2 full; the freed slot is still free when the pass ends.
C6_VagaLivreAteOProximoPasse ==
    AposPasse =>
        \A t \in TiposComTeto :
            C6_Caso(t) =>
                /\ \A j \in NoCargoAntesDoPasse(t, 1) :
                      servidores_atual[j].CargoAtual = 1
                /\ Ocupacao(servidores_atual, t, 2) < VAGAS_POR_TIPO[t][2]

\* a pass in which the case of C6 happened
C6_Witness ==
    /\ AposPasse
    /\ \E t \in TiposComTeto :
        /\ C6_Caso(t)
        /\ \E j \in NoCargoAntesDoPasse(t, 1) :
              /\ DateLE(servidores_atual[j].Promocao, Data(mes))
              /\ servidores_atual[j].CargoAtual = 1

\* month k has had its retirement step
AposentadoriasFeitas(k) == mes > k \/ (mes = k /\ pc # "aposentar")

\* C7 as stated: a row with a known DataBase B whose 30th anniversary month
\* (same calendar month, year B.y + 30) is a simulated month is retired
\* exactly in that month: not before it, and from it on.
C7_AposentaNoMesDos30Anos ==
    \A i \in Linhas :
        LET s   == servidores_atual[i]
            k30 == MesDe(AddYears(s.DataBase, ANOS_APOSENTADORIA))
        IN  (~IsNaT(s.DataBase) /\ k30 \in 0..(anos * 12 - 1)) =>
                /\ s.Aposentado => MesDe(s.DataAposentadoria) = k30
                /\ AposentadoriasFeitas(k30) => s.Aposentado

\* C9: in each step r -> r+1 of a vacancy pass the number of rows promoted
\* is min(|candidates|, max(0, ceiling(r+1) - active occupancy(r+1) at the
\* start of the step)); with the ceiling reached nobody enters rank r+1.
C9_NumeroDePromocoes ==
    AposPasse =>
        \A k \in DOMAIN passos :
            LET p == passos[k]
                n == Cardinality(PromovidosNoPasso(p))
            IN  /\ n = Min2(Cardinality(CandidatosDoPasso(p)),
                            Max2(0, SlotsDoPasso(p)))
                /\ SlotsDoPasso(p) <= 0 =>
                      \A i \in Linhas : p.depois[i] = p.antes[i]

\* a step with a candidate and the ceiling of the next rank reached
C9_Witness ==
    /\ AposPasse
    /\ \E k \in DOMAIN passos :
        LET p == passos[k]
        IN  /\ CandidatosDoPasso(p) # {}
            /\ SlotsDoPasso(p) = 0
            /\ VAGAS_POR_TIPO[p.tipo][p.cargo_origem + 1] > 0
            /\ PromovidosNoPasso(p) = {}

\* the rows of C10: original rank 1, no early-promotion flag, DataBase and
\* eligibility date both the start of the simulation
C10_Linhas ==
    { i \in Linhas :
        /\ servidores_atual[i].Cargo = 1
        /\ ~servidores_atual[i].promove_novembro
        /\ servidores_atual[i].DataBase = INICIO
        /\ servidores_atual[i].Promocao = INICIO }

\* C10: under the tenure policy with thresholds [5, 10, 15] such a row has
\* rank 1 in the records of months 0..59 and rank 2 in the record of month
\* 60 (and of the months after it until the next threshold), and it has a
\* record in every month processed.
C10_Cargo2NoMes60 ==
    (estrategia = "cenario" /\ cenario = CENARIO_A) =>
        \A i \in C10_Linhas :
            LET regs == RegistrosDaMatricula(servidores_atual[i].Matricula)
            IN  /\ \A k \in regs :
                    /\ MesDe(dados_fluxo[k].Data) < 60 => dados_fluxo[k].CargoAtual = 1
                    /\ MesDe(dados_fluxo[k].Data) \in 60..119 => dados_fluxo[k].CargoAtual = 2
                /\ \A m \in 0..(mes - 1) :
                    \E k \in regs : MesDe(dados_fluxo[k].Data) = m

\* the run of a roster of that single row, past month 60
C10_Witness ==
    /\ estrategia = "cenario"
    /\ cenario = CENARIO_A
    /\ Len(servidores_atual) = 1
    /\ C10_Linhas = {1}
    /\ \E k \in 1..Len(dados_fluxo) :
          MesDe(dados_fluxo[k].Data) = 59 /\ dados_fluxo[k].CargoAtual = 1
    /\ \E k \in 1..Len(dados_fluxo) :
          MesDe(dados_fluxo[k].Data) = 60 /\ dados_fluxo[k].CargoAtual = 2

\* the thresholds of the scenario that the service of row i has reached at
\* the date of the month, the service being the days since DataBase over
\* 365.25
LimitesAtingidos(i) ==
    { j \in 1..3 :
        (DaysFromCivil(Data(mes)) - DaysFromCivil(servidores_atual[i].DataBase)) * 100
            >= cenario[j] * 36525 }

\* the target rank of C11: one rank for each threshold reached, and rank 2
\* for a flagged row that has reached none
CargoAlvo(i) ==
    IF LimitesAtingidos(i) = {} /\ servidores_atual[i].promove_novembro THEN 2
    ELSE 1 + Cardinality(LimitesAtingidos(i))

\* the months of the tenure policy, read after the promotions of the month
AposAvaliacao ==
    /\ estrategia = "cenario"
    /\ pc = "gerar"
    /\ ~DateLT(Data(mes), ATIVACAO)

PromovidosAntecipadamente ==
    { i \in Linhas :
        /\ servidores_atual[i].promove_novembro
        /\ ~servidores_atual[i].Aposentado
        /\ ~IsNaT(servidores_atual[i].DataBase)
        /\ LimitesAtingidos(i) = {}
        /\ cargo_inicio_mes[i] = 1
        /\ servidores_atual[i].CargoAtual = 2 }

\* C12 as stated: under the tenure policy the early promotion of a flagged
\* row whose service is below the first threshold happens in a month of
\* November only.
C12_AntecipadaSoEmNovembro ==
    (estrategia = "cenario" /\ pc = "gerar") =>
        (PromovidosAntecipadamente # {} => Data(mes).m = 11)

\* C12, amended: under the tenure policy the early promotion of a flagged
\* row happens in the first month at or after the activation date, August
\* 2026, whatever its calendar month: a flagged active row of known
\* baseline that is at rank 1 with a service below the first threshold when
\* that month begins is at rank 2 after it, with that month's date as its
\* last-promotion date, and no early promotion happens in any other month.
C12_AntecipadaEmAgostoDe2026 ==
    (estrategia = "cenario" /\ pc = "gerar") =>
        /\ PromovidosAntecipadamente # {} => (Data(mes).y = 2026 /\ Data(mes).m = 8)
        /\ (Data(mes).y = 2026 /\ Data(mes).m = 8) =>
              \A i \in Linhas :
                  ( /\ servidores_atual[i].promove_novembro
                    /\ ~servidores_atual[i].Aposentado
                    /\ ~IsNaT(servidores_atual[i].DataBase)
                    /\ LimitesAtingidos(i) = {}
                    /\ cargo_inicio_mes[i] = 1 )
                  => /\ servidores_atual[i].CargoAtual = 2
                     /\ servidores_atual[i].MesPromocao = Data(mes)

\* the flagged row of DataBase 2022-03-10 promoted in August 2026, five
\* months after its anniversary
C12_Witness ==
    /\ estrategia = "cenario"
    /\ cenario = CENARIO_A
    /\ pc = "gerar"
    /\ Data(mes) = Date(2026, 8, 31)
    /\ \E i \in PromovidosAntecipadamente :
          /\ servidores_atual[i].DataBase = Date(2022, 3, 10)
          /\ servidores_atual[i].MesPromocao = Data(mes)

\* a date of a month before August 2026
AntesDeAgostoDe2026(a) == a.y < 2026 \/ (a.y = 2026 /\ a.m < 8)

\* C13: under the tenure policy no rank and no last-promotion date changes
\* in a month before August 2026: while the month is before August 2026
\* every row has its input rank and no last-promotion date, every record of
\* such a month carries the input rank, and no last-promotion date is ever
\* the date of such a month.
C13_NadaAntesDeAgostoDe2026 ==
    estrategia = "cenario" =>
        /\ (pc \in {"aposentar", "promover", "gerar"} /\ AntesDeAgostoDe2026(Data(mes))) =>
              \A i \in Linhas :
                  /\ servidores_atual[i].CargoAtual = servidores_atual[i].Cargo
                  /\ IsNaT(servidores_atual[i].MesPromocao)
        /\ \A i \in Linhas :
              ~IsNaT(servidores_atual[i].MesPromocao) =>
                  ~AntesDeAgostoDe2026(servidores_atual[i].MesPromocao)
        /\ \A k \in DOMAIN dados_fluxo :
              AntesDeAgostoDe2026(dados_fluxo[k].Data) =>
                  /\ dados_fluxo[k].CargoAtual = dados_fluxo[k].CargoOriginal
                  /\ IsNaT(dados_fluxo[k].MesPromocao)

\* August 2026, the first month of promotions: a row promoted in it, beside
\* a row still at rank 1 that passed its tenth year of service in November
\* 2025
C13_Witness ==
    /\ estrategia = "cenario"
    /\ pc = "gerar"
    /\ Data(mes) = Date(2026, 8, 31)
    /\ \E i \in Linhas :
          /\ cargo_inicio_mes[i] < servidores_atual[i].CargoAtual
          /\ servidores_atual[i].MesPromocao = Date(2026, 8, 31)
    /\ \E j \in Linhas :
          /\ servidores_atual[j].DataBase = Date(2015, 11, 13)
          /\ ~servidores_atual[j].Aposentado
          /\ servidores_atual[j].CargoAtual = 1
          /\ IsNaT(servidores_atual[j].MesPromocao)

\* the last month whose retirement step is done (-1 if there is none)
UltimoMesProcessado == IF pc = "aposentar" THEN mes - 1 ELSE Min2(mes, anos * 12 - 1)

\* calendar year of the month k minus the calendar year of a baseline date
DiferencaDeAnos(k, base) == Data(k).y - base.y

MesesComRegistro(matricula) ==
    { MesDe(dados_fluxo[k].Data) : k \in RegistrosDaMatricula(matricula) }

\* C15: under either policy a row with no baseline date is never retired:
\* its flag is false, it has no retirement date, and it has one income
\* record for every month emitted so far, hence for every month of the
\* horizon in the tables returned.
C15_SemDataBaseNuncaAposenta ==
    \A i \in Linhas :
        LET s == servidores_atual[i]
        IN  IsNaT(s.DataBase) =>
              /\ ~s.Aposentado
              /\ IsNaT(s.DataAposentadoria)
              /\ MesesComRegistro(s.Matricula) = 0..(mes - 1)
              /\ Cardinality(RegistrosDaMatricula(s.Matricula)) = mes
              /\ pc = "retorno" =>
                    /\ mes = anos * 12
                    /\ Len(GrupoDe(df_fluxo, s.Matricula)) = anos * 12

\* the end of a run under the vacancy policy in which a row with no
\* baseline date, at its rank since 1993, drew income in every month while
\* another row retired
C15_Witness ==
    /\ estrategia = "status_quo"
    /\ pc = "retorno"
    /\ \E i \in Linhas :
          /\ IsNaT(servidores_atual[i].DataBase)
          /\ df_servidores[i].Promocao.y = 1993
          /\ ~servidores_atual[i].Aposentado
          /\ Len(GrupoDe(df_fluxo, servidores_atual[i].Matricula)) = anos * 12
    /\ \E j \in Linhas : servidores_atual[j].Aposentado

\* C16 as stated: the Summary a run returns has exactly one row for each
\* row of the input roster, whatever the month of its retirement.
C16_UmaLinhaPorServidor ==
    pc = "retorno" =>
        /\ Len(resumo_vpl) = Len(df_servidores)
        /\ \A i \in DOMAIN df_servidores :
              Cardinality({ k \in DOMAIN resumo_vpl :
                  resumo_vpl[k].Matricula = df_servidores[i].Matricula }) = 1

\* C18: with a positive annual rate, in the MonthlyDetail returned every
\* record has a present value at most its income; the record of the first
\* month (months elapsed 0) has the factor 1 and a present value equal to
\* its income, every later record a factor below 1 and a present value
\* below its income; and the cumulative present value of a row is at most
\* its cumulative income in every month.
C18_ValorPresenteNaoExcedeNominal ==
    (pc = "retorno" /\ taxa > 0) =>
        \A k \in DOMAIN df_fluxo :
            LET r == df_fluxo[k]
            IN  /\ r.MesesDesdeInicio = MesDe(r.Data)
                /\ r.ValorPresente <= r.Rendimento
                /\ r.VPL_Acumulado <= r.ValorAcumulado
                /\ IF MesDe(r.Data) = 0
                   THEN r.FatorDesconto = ESCALA /\ r.ValorPresente = r.Rendimento
                   ELSE r.FatorDesconto < ESCALA /\ r.ValorPresente < r.Rendimento

\* the tables of a run discounted at the least rate: the record of July
\* 2025 at its income, the record of August 2025 below it, and the last
\* cumulative present value below the cumulative income
C18_Witness ==
    /\ pc = "retorno"
    /\ taxa = 10
    /\ \E k \in DOMAIN df_fluxo :
          /\ df_fluxo[k].Data = Date(2025, 7, 31)
          /\ df_fluxo[k].ValorPresente = df_fluxo[k].Rendimento
    /\ \E k \in DOMAIN df_fluxo :
          /\ df_fluxo[k].Data = Date(2025, 8, 31)
          /\ df_fluxo[k].FatorDesconto < ESCALA
          /\ df_fluxo[k].ValorPresente < df_fluxo[k].Rendimento
    /\ df_fluxo[Len(df_fluxo)].VPL_Acumulado < df_fluxo[Len(df_fluxo)].ValorAcumulado

\* C19: no step of a run changes the roster of the caller (ranks,
\* eligibility dates, flags, baseline dates): the eligibility adjustment of
\* the vacancy policy and the retirement and promotion state are written to
\* the frame the run copied for itself.
C19_EntradaInalterada ==
    [][df_servidores' = df_servidores]_vars

\* the end of a run under the vacancy policy whose own frame has a row of
\* rank 1 with the eligibility moved by three years and a row promoted,
\* the roster of the caller still having the date and the rank it was given
C19_Witness ==
    /\ estrategia = "status_quo"
    /\ pc = "retorno"
    /\ \E i \in Linhas :
          /\ df_servidores[i].Cargo = 1
          /\ servidores_atual[i].Promocao = AddYears(df_servidores[i].Promocao, 3)
          /\ servidores_atual[i].Promocao # df_servidores[i].Promocao
    /\ \E j \in Linhas :
          /\ servidores_atual[j].CargoAtual > df_servidores[j].Cargo
          /\ servidores_atual[j].Matricula = df_servidores[j].Matricula

\* C20: a run asked for with a name that is neither "status_quo" nor
\* "cenario" is at its entry or has failed there: no roster is prepared, no
\* month is simulated, no record is emitted, and neither the MonthlyDetail
\* nor the Summary is returned.
C20_EstrategiaDesconhecidaFalha ==
    estrategia \notin {"status_quo", "cenario"} =>
        /\ pc \in {"entrada", "erro"}
        /\ servidores_atual = <<>>
        /\ mes = 0
        /\ dados_fluxo = <<>>
        /\ df_fluxo = <<>>
        /\ resumo_vpl = <<>>

\* the error raised at the entry of a run asked for with the name "tempo"
C20_Witness ==
    /\ estrategia = "tempo"
    /\ df_servidores # <<>>
    /\ pc = "erro"
    /\ mes = 0
    /\ dados_fluxo = <<>>
    /\ resumo_vpl = <<>>

(***************************************************************************)
(* C21 .. C30                                                              *)
(***************************************************************************)
LimitesCrescentes(cen) ==
    \A j \in 1..(Len(cen) - 1) : cen[j] < cen[j + 1]

ConfiguracaoInvalida ==
    \/ taxa < 0
    \/ estrategia = "cenario" /\ ~LimitesCrescentes(cenario)

\* C21: a run configured with tenure thresholds that do not ascend, or with
\* a negative discount rate, is rejected at entry: no month of it is ever
\* simulated, no record is emitted and no result is returned.
C21_ConfiguracaoInvalidaRejeitada ==
    ConfiguracaoInvalida =>
        /\ mes = 0
        /\ dados_fluxo = <<>>
        /\ pc # "retorno"

LinhaMalformada(s) ==
    \/ s.Cargo \notin 1..4
    \/ s.TipoPerito \notin DOMAIN VAGAS_POR_TIPO

RosterMalformado ==
    \E i \in DOMAIN df_servidores : LinhaMalformada(df_servidores[i])

\* C22: a roster holding a malformed row (a rank outside 1..4, or a
\* sub-population without configured ceilings) has its whole run rejected:
\* no record is ever emitted for that row and the run never returns.
C22_RosterMalformadoRejeitado ==
    RosterMalformado =>
        /\ pc # "retorno"
        /\ \A j \in DOMAIN dados_fluxo :
              \A i \in DOMAIN df_servidores :
                 LinhaMalformada(df_servidores[i])
                    => dados_fluxo[j].Matricula # df_servidores[i].Matricula

\* the date four calendar years before a date that is no 29 February
QuatroAnosAntes(a) == [y |-> a.y - 4, m |-> a.m, d |-> a.d]

\* the rows of the roster the loader gave a DataBase
ComDataBase == { i \in DOMAIN df_servidores : ~IsNaT(df_servidores[i].DataBase) }

\* C23 as stated: a row whose original rank is 1, 2 or 3 has DataBase =
\* Promoção minus four years, and a row of rank 4 has DataBase = Promoção.
C23_DataBaseAbaixoDoTopo ==
    pc # "entrada" =>
        \A i \in ComDataBase :
            LET s == df_servidores[i]
            IN  IF s.Cargo \in {1, 2, 3}
                THEN s.DataBase = QuatroAnosAntes(s.Promocao)
                ELSE s.DataBase = s.Promocao

\* C23 amended: a row whose original rank is not 1 (ranks 2, 3 and 4) has
\* DataBase = Promoção minus four years, and a row of rank 1 has DataBase =
\* Promoção; the run reads that DataBase unchanged.
C23_DataBasePeloCargo ==
    pc # "entrada" =>
        /\ \A i \in ComDataBase :
              LET s == df_servidores[i]
              IN  IF s.Cargo = 1
                  THEN s.DataBase = s.Promocao
                  ELSE s.DataBase = QuatroAnosAntes(s.Promocao)
        /\ \A i \in Linhas : servidores_atual[i].DataBase = df_servidores[i].DataBase

\* a rank-4 row with Promoção in 2000 retired in January 2026, thirty
\* calendar years after its DataBase of 1996, beside a rank-1 row whose
\* DataBase is its Promoção
C23_Witness ==
    /\ pc = "promover"
    /\ Data(mes) = Date(2026, 1, 31)
    /\ \E i, j \in Linhas :
        LET s == servidores_atual[i]
            r == df_servidores[j]
        IN  /\ s.Cargo = 4 /\ s.Promocao = Date(2000, 5, 1)
            /\ s.DataBase = Date(1996, 5, 1)
            /\ s.Aposentado /\ s.DataAposentadoria = Data(mes)
            /\ r.Cargo = 1 /\ r.DataBase = r.Promocao /\ ~IsNaT(r.DataBase)

C25_PromovidoForaDosPassosSeguintes ==
    AposPasse =>
        /\ \A i \in Linhas : \A k \in DOMAIN passos :
              passos[k].depois[i] # passos[k].antes[i] =>
                 \A l \in (k + 1)..Len(passos) :
                    /\ servidores_atual[i].Matricula \in passos[l].bloqueados
                    /\ passos[l].depois[i] = passos[l].antes[i]
        /\ \A i \in Linhas :
              servidores_atual[i].CargoAtual \in
                  {passos[1].antes[i], passos[1].antes[i] + 1}

\* a row promoted r -> r+1 by one step, eligible, left at r+1 by the next
\* step of its sub-population although that step ended with a free slot at
\* r+2
C25_Witness ==
    /\ AposPasse
    /\ \E k \in DOMAIN passos : \E l \in DOMAIN passos :
        /\ k < l
        /\ passos[l].tipo = passos[k].tipo
        /\ passos[l].cargo_origem = passos[k].cargo_origem + 1
        /\ SlotsDoPasso(passos[l]) > Cardinality(PromovidosNoPasso(passos[l]))
        /\ \E i \in PromovidosNoPasso(passos[k]) :
            /\ DateLE(servidores_atual[i].Promocao, Data(mes))
            /\ passos[l].antes[i] = passos[l].cargo_origem
            /\ servidores_atual[i].CargoAtual = passos[l].cargo_origem

\* C26: under the vacancy policy ranks and last-promotion dates change in
\* May and November only: every last-promotion date is the date of a
\* simulated May or November, and in any other month the promotion step
\* takes no pass and leaves every rank as the month found it; the
\* retirement step still runs in every month.
C26_PromocoesSoEmMaioENovembro ==
    estrategia = "status_quo" =>
        /\ \A i \in Linhas :
              LET s == servidores_atual[i]
              IN  ~IsNaT(s.MesPromocao) =>
                    /\ s.MesPromocao.m \in {5, 11}
                    /\ MesDe(s.MesPromocao) \in 0..mes
                    /\ s.MesPromocao = Data(MesDe(s.MesPromocao))
        /\ (pc = "gerar" /\ Data(mes).m \notin {5, 11}) =>
              /\ passos = <<>>
              /\ \A i \in Linhas :
                    /\ servidores_atual[i].CargoAtual = cargo_inicio_mes[i]
                    /\ servidores_atual[i].MesPromocao # Data(mes)
        /\ pc \in {"promover", "gerar"} =>
              \A i \in Linhas :
                 LET s == servidores_atual[i]
                 IN  ~IsNaT(s.DataBase) =>
                        (s.Aposentado <=> DiferencaDeAnos(mes, s.DataBase) >= 30)

\* January 2026 after its promotion step: a row retired in this month, and
\* a row promoted in November 2025 that the step left as it was
C26_Witness ==
    /\ estrategia = "status_quo"
    /\ pc = "gerar"
    /\ Data(mes) = Date(2026, 1, 31)
    /\ \E i, j \in Linhas :
        /\ servidores_atual[i].Aposentado
        /\ servidores_atual[i].DataAposentadoria = Data(mes)
        /\ ~servidores_atual[j].Aposentado
        /\ servidores_atual[j].MesPromocao = Date(2025, 11, 30)
        /\ servidores_atual[j].CargoAtual = servidores_atual[j].Cargo + 1
        /\ servidores_atual[j].CargoAtual < 4
        /\ DateLE(servidores_atual[j].Promocao, Data(mes))

\* the thresholds the service of row i, in years of 365.25 days, has
\* reached at the date of month k
LimitesAtingidosEm(i, k) ==
    { j \in 1..3 :
        (DaysFromCivil(Data(k)) - DaysFromCivil(servidores_atual[i].DataBase)) * 100
            >= cenario[j] * 36525 }

\* a date whose calendar month is that of the baseline date, in a later
\* calendar year
MesDeAniversario(data, base) ==
    ~IsNaT(base) /\ data.m = base.m /\ data.y > base.y

\* C27: under the tenure policy the rank of a row without the early flag
\* changes only in a simulated month whose calendar month is the baseline
\* date's and whose calendar year is later than the baseline's: in any
\* other month the row has the rank the month found it with, and its
\* last-promotion date, if any, is the date of such a month.
C27_SemFlagSoNoAniversario ==
    estrategia = "cenario" =>
        \A i \in Linhas :
            LET s == servidores_atual[i]
            IN  ~s.promove_novembro =>
                  /\ s.CargoAtual # cargo_inicio_mes[i]
                        => MesDeAniversario(Data(mes), s.DataBase)
                  /\ ~IsNaT(s.MesPromocao)
                        => MesDeAniversario(s.MesPromocao, s.DataBase)

\* an unflagged row promoted in its anniversary month, whose service had
\* reached the threshold of a higher rank a month earlier, after activation
C27_Witness ==
    /\ AposAvaliacao
    /\ ~DateLT(Data(mes - 1), ATIVACAO)
    /\ \E i \in Linhas :
        LET s == servidores_atual[i]
        IN  /\ ~s.promove_novembro
            /\ s.CargoAtual > cargo_inicio_mes[i]
            /\ MesDeAniversario(Data(mes), s.DataBase)
            /\ 1 + Cardinality(LimitesAtingidosEm(i, mes - 1)) > cargo_inicio_mes[i]

\* the flagged, active rows with a baseline date
Antecipados ==
    { i \in Linhas :
        /\ servidores_atual[i].promove_novembro
        /\ ~servidores_atual[i].Aposentado
        /\ ~IsNaT(servidores_atual[i].DataBase) }

\* C28: under the tenure policy a flagged, active row with a baseline date
\* is evaluated in every month from August 2026 on: after the step of each
\* such month it is at the target rank of the thresholds if that is above
\* the rank the month found it with, so it is at rank 2 or above from the
\* record of August 2026 on, and a later promotion falls in the first month
\* whose date has the service at a threshold that the date of the month
\* before had not reached, whatever the calendar month.
C28_AntecipadoAvaliadoTodoMes ==
    /\ AposAvaliacao =>
          \A i \in Antecipados :
              LET s == servidores_atual[i]
              IN  /\ s.CargoAtual = Max2(cargo_inicio_mes[i], CargoAlvo(i))
                  /\ s.CargoAtual >= 2
                  /\ (s.CargoAtual > cargo_inicio_mes[i] /\ Data(mes) # Date(2026, 8, 31)) =>
                        /\ LimitesAtingidosEm(i, mes - 1) # LimitesAtingidosEm(i, mes)
                        /\ LimitesAtingidosEm(i, mes - 1) \subseteq LimitesAtingidosEm(i, mes)
    /\ (estrategia = "cenario" /\ pc = "aposentar" /\ mes > 0
            /\ Data(mes - 1) = Date(2026, 8, 31)) =>
          \A i \in Antecipados :
              \E k \in RegistrosDaMatricula(servidores_atual[i].Matricula) :
                  /\ dados_fluxo[k].Data = Date(2026, 8, 31)
                  /\ dados_fluxo[k].CargoAtual >= 2

\* a flagged row, at rank 2 since August 2026, promoted to rank 3 in a
\* month that is neither its anniversary month nor November
C28_Witness ==
    /\ AposAvaliacao
    /\ \E i \in Antecipados :
        LET s == servidores_atual[i]
        IN  /\ s.Cargo = 1
            /\ cargo_inicio_mes[i] = 2
            /\ s.CargoAtual = 3
            /\ s.MesPromocao = Data(mes)
            /\ Data(mes).m \notin {s.DataBase.m, 8, 11}
            /\ \E k \in RegistrosDaMatricula(s.Matricula) :
                  /\ dados_fluxo[k].Data = Date(2026, 8, 31)
                  /\ dados_fluxo[k].CargoAtual = 2

\* the months counted, the order of the three steps within a month, and the
\* tables built only after the last month
C29_PassosEmOrdem ==
    /\ mes \in 0..(anos * 12)
    /\ pc \in {"aposentar", "promover", "gerar"} => mes < anos * 12
    /\ pc \in {"fim", "retorno"} => mes = anos * 12
    /\ pc # "retorno" => (df_fluxo = <<>> /\ resumo_vpl = <<>>)
    /\ pc = "retorno" => Len(df_fluxo) = Len(dados_fluxo)
    /\ dados_fluxo # <<>> =>
          /\ dados_fluxo[1].Data.y = 2025 /\ dados_fluxo[1].Data.m >= 7
          /\ dados_fluxo[Len(dados_fluxo)].Data.y * 12 + dados_fluxo[Len(dados_fluxo)].Data.m
                < 2025 * 12 + 7 + mes
    /\ pc \in {"promover", "gerar"} =>
          \A i \in Linhas :
              LET s == servidores_atual[i]
              IN  /\ (~IsNaT(s.DataBase) /\ Data(mes).y - s.DataBase.y >= 30)
                        => s.Aposentado
                  /\ pc = "promover" => s.CargoAtual = cargo_inicio_mes[i]
    /\ pc = "retorno" =>
          \A i \in Linhas :
              ~servidores_atual[i].Aposentado =>
                  /\ Cardinality(RegistrosDaMatricula(servidores_atual[i].Matricula))
                        = anos * 12
                  /\ MesesComRegistro(servidores_atual[i].Matricula)
                        = 0..(anos * 12 - 1)

\* a step of the call: within a month retirement, then promotion, then
\* emission, the month counted at the emission; after the last month the
\* tables or an exception
C29_Passo ==
    /\ pc = "entrada" => (pc' \in {"aposentar", "erro"} /\ mes' = 0)
    /\ pc = "aposentar" => (pc' = "promover" /\ mes' = mes)
    /\ pc = "promover" => (pc' = "gerar" /\ mes' = mes)
    /\ pc = "gerar" =>
          /\ mes' = mes + 1
          /\ pc' = IF mes' < anos * 12 THEN "aposentar" ELSE "fim"
    /\ pc = "fim" => (pc' \in {"retorno", "erro"} /\ mes' = mes)
    /\ pc \notin {"retorno", "erro"}
    /\ pc # "gerar" => dados_fluxo' = dados_fluxo

\* C29: a run of H years takes exactly H x 12 monthly steps that start at
\* July 2025, each of them retirement, then promotion, then emission, and
\* builds the cumulative and discounted series only after the last of
\* them; a row that never retires has exactly H x 12 income records, one
\* for each month.
C29_HVezes12Passos ==
    C29_PassosEmOrdem /\ [][C29_Passo /\ C29_PassosEmOrdem']_vars

\* a run returned with a row never retired beside a row retired on the way
C29_Witness ==
    /\ pc = "retorno"
    /\ mes = anos * 12
    /\ \E i, j \in Linhas :
        /\ ~servidores_atual[i].Aposentado
        /\ Cardinality(RegistrosDaMatricula(servidores_atual[i].Matricula)) = anos * 12
        /\ servidores_atual[j].Aposentado
        /\ Cardinality(RegistrosDaMatricula(servidores_atual[j].Matricula))
              \in 1..(anos * 12 - 1)

\* the state an emission leaves: the month emitted is mes - 1 and the rows
\* are as that month's promotion step left them
AposEmissao == pc \in {"aposentar", "fim"} /\ mes > 0

\* the active rows
Ativos == { i \in Linhas : ~servidores_atual[i].Aposentado }

\* the positions of the last n records emitted
UltimosRegistros(n) == (Len(dados_fluxo) - n + 1)..Len(dados_fluxo)

\* C30: the records of a simulated month are exactly one for each row that
\* is active after the month's retirement step and none for a retired row;
\* a record carries the rank the row has after the month's promotion step
\* and the amount of the income table for that rank, so a promotion of the
\* month is paid in the month.
C30_UmRegistroPorAtivo ==
    AposEmissao =>
        LET n  == Cardinality(Ativos)
            do_mes == { k \in DOMAIN dados_fluxo :
                          k >= Len(dados_fluxo) - Len(servidores_atual)
                          /\ dados_fluxo[k].Data = Data(mes - 1) }
        IN  /\ Len(dados_fluxo) >= n
            /\ do_mes = UltimosRegistros(n)
            /\ \A i \in Ativos :
                  LET s == servidores_atual[i]
                      r == { k \in do_mes : dados_fluxo[k].Matricula = s.Matricula }
                  IN  /\ Cardinality(r) = 1
                      /\ \A k \in r :
                            /\ dados_fluxo[k].CargoAtual = s.CargoAtual
                            /\ dados_fluxo[k].Rendimento = SALARIOS[s.CargoAtual]
                            /\ dados_fluxo[k].Rendimento
                                  \in {2773724, 3169935, 3566147, 3962358}
            /\ \A i \in Linhas \ Ativos :
                  \A k \in do_mes :
                      dados_fluxo[k].Matricula # servidores_atual[i].Matricula

\* a month emitted with a row promoted in it, whose record of the month
\* carries the new rank and its amount, and a retired row without a record
C30_Witness ==
    /\ AposEmissao
    /\ \E i \in Ativos : \E j \in Linhas \ Ativos :
        LET s == servidores_atual[i]
        IN  /\ s.MesPromocao = Data(mes - 1)
            /\ \E k \in UltimosRegistros(Cardinality(Ativos)) :
                  /\ dados_fluxo[k].Matricula = s.Matricula
                  /\ dados_fluxo[k].CargoAtual = s.CargoAtual
                  /\ dados_fluxo[k].Rendimento = SALARIOS[s.CargoAtual]
                  /\ dados_fluxo[k].Rendimento > SALARIOS[s.Cargo]
            /\ \A k \in UltimosRegistros(Cardinality(Ativos)) :
                  dados_fluxo[k].Matricula # servidores_atual[j].Matricula

(***************************************************************************)
(* C31 .. C39                                                              *)
(***************************************************************************)
\* the position of a record of df_fluxo with the earliest date of the table
PrimeiroRegistro ==
    CHOOSE k \in DOMAIN df_fluxo :
        \A j \in DOMAIN df_fluxo : DateLE(df_fluxo[k].Data, df_fluxo[j].Data)

\* C31: the months-elapsed value of every record of the table returned is
\* the whole number of months from the earliest month of the table, one
\* origin for all rows, to the record's month: 0 in every record of July
\* 2025, the first simulated month, and k in every record of the k-th month
\* after it.
C31_MesesDesdeOPrimeiroMes ==
    pc = "retorno" =>
        LET origem == df_fluxo[PrimeiroRegistro].Data
        IN  /\ origem = Date(2025, 7, 31)
            /\ \A k \in DOMAIN df_fluxo :
                  LET r == df_fluxo[k]
                  IN  /\ r.MesesDesdeInicio
                            = (r.Data.y - origem.y) * 12 + (r.Data.m - origem.m)
                      /\ r.Data = Data(r.MesesDesdeInicio)
                      /\ r.MesesDesdeInicio \in 0..(anos * 12 - 1)

\* a table returned with records of two rows in the first month, counted 0
\* and not discounted, and a record counted 13 in August 2026
C31_Witness ==
    /\ pc = "retorno"
    /\ \E j, k, l \in DOMAIN df_fluxo :
        /\ df_fluxo[j].Matricula # df_fluxo[k].Matricula
        /\ df_fluxo[j].MesesDesdeInicio = 0 /\ df_fluxo[j].Data = Date(2025, 7, 31)
        /\ df_fluxo[k].MesesDesdeInicio = 0 /\ df_fluxo[k].Data = Date(2025, 7, 31)
        /\ df_fluxo[k].FatorDesconto = ESCALA
        /\ df_fluxo[l].MesesDesdeInicio = 13 /\ df_fluxo[l].Data = Date(2026, 8, 31)
        /\ df_fluxo[l].FatorDesconto < ESCALA

\* a record of df_fluxo that opens the records of its Matrícula
PrimeiroDoGrupo(k) == k = 1 \/ df_fluxo[k - 1].Matricula # df_fluxo[k].Matricula

\* a record of df_fluxo that closes the records of its Matrícula
UltimoDoGrupo(k) ==
    k = Len(df_fluxo) \/ df_fluxo[k + 1].Matricula # df_fluxo[k].Matricula

\* C32: in the table returned the records of a row are together, by date
\* ascending, and the cumulative nominal value of a record is the sum of
\* the incomes of its row's records dated up to it, the cumulative present
\* value the sum of their present values, records of other rows never
\* counted; the Summary totals of a row are the cumulative values of its
\* last record and the Summary gap is the nominal total minus the present-
\* value total.
C32_AcumuladosPorServidor ==
    pc = "retorno" =>
        /\ \A k \in DOMAIN df_fluxo :
              LET r == df_fluxo[k]
              IN  IF PrimeiroDoGrupo(k)
                  THEN /\ r.ValorAcumulado = r.Rendimento
                       /\ r.VPL_Acumulado = r.ValorPresente
                       /\ k > 1 => df_fluxo[k - 1].Matricula < r.Matricula
                  ELSE /\ DateLT(df_fluxo[k - 1].Data, r.Data)
                       /\ r.ValorAcumulado
                             = df_fluxo[k - 1].ValorAcumulado + r.Rendimento
                       /\ r.VPL_Acumulado
                             = df_fluxo[k - 1].VPL_Acumulado + r.ValorPresente
        /\ Len(resumo_vpl) = Cardinality({ k \in DOMAIN df_fluxo : UltimoDoGrupo(k) })
        /\ \A n \in DOMAIN resumo_vpl :
              \E k \in DOMAIN df_fluxo :
                  /\ UltimoDoGrupo(k)
                  /\ df_fluxo[k].Matricula = resumo_vpl[n].Matricula
                  /\ resumo_vpl[n].ValorNominal_Total = df_fluxo[k].ValorAcumulado
                  /\ resumo_vpl[n].VPL_Total = df_fluxo[k].VPL_Acumulado
                  /\ resumo_vpl[n].DiferencaNominal_VPL
                        = resumo_vpl[n].ValorNominal_Total - resumo_vpl[n].VPL_Total

\* a table returned for two rows, the first of them promoted on the way:
\* the second row's first record restarts the sums, and the gap of the
\* Summary is positive
C32_Witness ==
    /\ pc = "retorno"
    /\ Len(resumo_vpl) >= 2
    /\ resumo_vpl[1].DiferencaNominal_VPL > 0
    /\ \E k \in DOMAIN df_fluxo :
        /\ k > 1
        /\ PrimeiroDoGrupo(k)
        /\ df_fluxo[k].ValorAcumulado = df_fluxo[k].Rendimento
        /\ df_fluxo[k - 1].ValorAcumulado = resumo_vpl[1].ValorNominal_Total
        /\ df_fluxo[k - 1].CargoAtual > df_fluxo[k - 1].CargoOriginal
        /\ df_fluxo[k - 1].ValorAcumulado > df_fluxo[k - 1].VPL_Acumulado

\* the horizons, shorter than the run's, a rerun is compared at
HorizonteCurto == 2

HorizontesMenores == { h \in 1..HorizonteCurto : h < anos }

\* the records of df_fluxo of the first h x 12 months, in the table's order
PrimeirosAnos(tabela, h) ==
    SelectSeq(tabela, LAMBDA r : r.MesesDesdeInicio < h * 12)

\* C33: for a horizon H1 below the horizon H2 of a run, the table the call
\* returns for H1 years with the same roster, policy, thresholds and rate is
\* the table of the run of H2 years restricted to its first H1 x 12 months:
\* the same records with the same ranks, incomes, discount factors and
\* cumulative values, in the same order.
C33_TruncarIgualARodarDeNovo ==
    pc = "retorno" =>
        /\ df_fluxo = FluxoDe(df_servidores, anos, estrategia, cenario, taxa)
        /\ \A h \in HorizontesMenores :
              PrimeirosAnos(df_fluxo, h)
                  = FluxoDe(df_servidores, h, estrategia, cenario, taxa)

\* a run of more than a year returned with a row promoted and a row retired
\* within the first year, and records after that year
C33_Witness ==
    /\ pc = "retorno"
    /\ 1 \in HorizontesMenores
    /\ Len(PrimeirosAnos(df_fluxo, 1)) < Len(df_fluxo)
    /\ \E j, k \in DOMAIN df_fluxo :
        /\ df_fluxo[j].MesesDesdeInicio < 12
        /\ df_fluxo[j].CargoAtual > df_fluxo[j].CargoOriginal
        /\ df_fluxo[k].Matricula # df_fluxo[j].Matricula
        /\ df_fluxo[k].MesesDesdeInicio < 11
        /\ UltimoDoGrupo(k)

\* the sub-populations of the roster
TiposDoRoster == { df_servidores[i].TipoPerito : i \in DOMAIN df_servidores }

\* the rows of a table of one sub-population, in the table's order
DoTipo(tabela, t) == SelectSeq(tabela, LAMBDA r : r.TipoPerito = t)

\* C34: under the vacancy policy, with Matrículas unique in the roster, the
\* records of the rows of a sub-population (their months, ranks,
\* last-promotion dates, and the month each row's records stop at, its
\* retirement) are those of the run of the roster without the rows of the
\* other sub-populations, so rows of other sub-populations, whatever they
\* are, change nothing of them.
C34_TiposIndependentes ==
    (estrategia = "status_quo" /\ pc = "fim") =>
        \A t \in TiposDoRoster :
            DoTipo(dados_fluxo, t)
                = MesesDoFluxo(ServidoresIniciais(DoTipo(df_servidores, t), estrategia),
                               estrategia, cenario, 0, anos * 12)

\* the end of a run of a roster of two sub-populations in which one pass
\* promoted a row of each of them to rank 2
C34_Witness ==
    /\ estrategia = "status_quo"
    /\ pc = "fim"
    /\ Cardinality(TiposDoRoster) = 2
    /\ \E j, k \in DOMAIN dados_fluxo :
        /\ dados_fluxo[j].TipoPerito = "criminal"
        /\ dados_fluxo[j].CargoAtual = 2
        /\ dados_fluxo[j].MesPromocao = dados_fluxo[j].Data
        /\ dados_fluxo[k].TipoPerito = "odonto"
        /\ dados_fluxo[k].Data = dados_fluxo[j].Data
        /\ dados_fluxo[k].CargoAtual = 2
        /\ dados_fluxo[k].MesPromocao = dados_fluxo[k].Data

(***************************************************************************)
(* C35 .. C39                                                              *)
(***************************************************************************)
\* the row was promoted by the pass of the promotion month before this one:
\* its record of that month carries the month as last-promotion date
PromovidoNoPasseAnterior(i) ==
    /\ mes >= 6
    /\ \E k \in RegistrosDaMatricula(servidores_atual[i].Matricula) :
        /\ dados_fluxo[k].Data = Data(mes - 6)
        /\ dados_fluxo[k].MesPromocao = Data(mes - 6)

\* the roster as the pass of the month found it, its last-promotion dates
\* erased
AntesDoPasseSemMesPromocao ==
    [i \in Linhas |->
        [servidores_atual[i] EXCEPT !.CargoAtual = passos[1].antes[i],
                                    !.MesPromocao = NaT]]

\* C35: under the vacancy policy the last-promotion date has no part in
\* candidacy: the pass of a promotion month takes the same steps on the
\* roster with every last-promotion date erased, and a row promoted in the
\* promotion month before, active, eligible and at rank r < 4 when the pass
\* starts, is promoted by the step r -> r+1 of its sub-population unless the
\* slots of the step are all taken by candidates that precede it.
C35_CandidaturaSemUltimaPromocao ==
    AposPasse =>
        /\ PromocoesPorVagas(AntesDoPasseSemMesPromocao, Data(mes)).passos = passos
        /\ \A i \in Linhas : \A k \in DOMAIN passos :
            LET p == passos[k]
                s == servidores_atual[i]
            IN  ( /\ PromovidoNoPasseAnterior(i)
                  /\ ~s.Aposentado
                  /\ s.TipoPerito = p.tipo
                  /\ passos[1].antes[i] = p.cargo_origem
                  /\ DateLE(s.Promocao, Data(mes)) )
                => \/ p.depois[i] = p.cargo_origem + 1
                   \/ /\ Cardinality(PromovidosNoPasso(p)) = Max2(0, SlotsDoPasso(p))
                      /\ \A a \in PromovidosNoPasso(p) : AntesNaOrdem(a, i)

\* November 2026 of a run in which a row that came at rank 1 reaches rank 4,
\* promoted in November 2025, in May 2026 and now
C35_Witness ==
    /\ AposPasse
    /\ mes = 16
    /\ \E i \in Linhas :
        /\ servidores_atual[i].Cargo = 1
        /\ servidores_atual[i].CargoAtual = 4
        /\ servidores_atual[i].MesPromocao = Data(16)
        /\ PromovidoNoPasseAnterior(i)
        /\ \E k \in RegistrosDaMatricula(servidores_atual[i].Matricula) :
            /\ dados_fluxo[k].Data = Data(4)
            /\ dados_fluxo[k].CargoAtual = 2
            /\ dados_fluxo[k].MesPromocao = Data(4)

\* the run has prepared its roster from the input
Preparado == pc \in {"aposentar", "promover", "gerar", "fim", "retorno"}

\* the eligibility date of row i in the input of the run
PromocaoDeEntrada(i) == df_servidores[i].Promocao

\* C36: under the vacancy policy the eligibility date of a row that came at
\* rank 1 is its input eligibility date plus 3 years, at every point of the
\* run and at whatever rank the row is by then, and no last-promotion date
\* of such a row, in the roster at any point or in a record when the month
\* loop has ended, is earlier than that date;
\* the eligibility date of a row that came at rank 2 to 4 is the input one,
\* and such a row, active, at rank r < 4 when a pass starts and eligible by
\* its input date, is promoted by the step r -> r+1 of its sub-population
\* unless candidates that precede it take all the slots.
C36_ElegibilidadeMaisTresAnos ==
    (estrategia = "status_quo" /\ Preparado) =>
        /\ \A i \in Linhas :
            LET s == servidores_atual[i]
            IN  IF s.Cargo = 1
                THEN /\ s.Promocao = AddYears(PromocaoDeEntrada(i), 3)
                     /\ IsNaT(s.MesPromocao)
                          \/ DateLE(AddYears(PromocaoDeEntrada(i), 3), s.MesPromocao)
                     /\ pc = "fim" =>
                          \A k \in RegistrosDaMatricula(s.Matricula) :
                            \/ IsNaT(dados_fluxo[k].MesPromocao)
                            \/ DateLE(AddYears(PromocaoDeEntrada(i), 3),
                                      dados_fluxo[k].MesPromocao)
                ELSE s.Promocao = PromocaoDeEntrada(i)
        /\ AposPasse =>
            \A i \in Linhas : \A k \in DOMAIN passos :
                LET p == passos[k]
                    s == servidores_atual[i]
                IN  ( /\ s.Cargo # 1
                      /\ ~s.Aposentado
                      /\ s.TipoPerito = p.tipo
                      /\ passos[1].antes[i] = p.cargo_origem
                      /\ DateLE(PromocaoDeEntrada(i), Data(mes)) )
                    => \/ p.depois[i] = p.cargo_origem + 1
                       \/ /\ Cardinality(PromovidosNoPasso(p)) = Max2(0, SlotsDoPasso(p))
                          /\ \A a \in PromovidosNoPasso(p) : AntesNaOrdem(a, i)

\* May 2026 of a run: a row that came at rank 1 with an input eligibility
\* date of May 2023 was passed over in November 2025, months after its input
\* date, and is promoted now, while a row that came at rank 2 with an input
\* date of November 2023 was promoted in November 2025, before its input
\* date plus 3 years
C36_Witness ==
    /\ AposPasse
    /\ mes = 10
    /\ \E i \in Linhas : \E j \in Linhas :
        LET s == servidores_atual[i]
            t == servidores_atual[j]
        IN  /\ s.Cargo = 1
            /\ DateLT(PromocaoDeEntrada(i), Data(4))
            /\ s.CargoAtual = 2
            /\ s.MesPromocao = Data(10)
            /\ \E k \in RegistrosDaMatricula(s.Matricula) :
                /\ dados_fluxo[k].Data = Data(4)
                /\ dados_fluxo[k].CargoAtual = 1
            /\ t.Cargo = 2
            /\ DateLT(Data(4), AddYears(PromocaoDeEntrada(j), 3))
            /\ \E k \in RegistrosDaMatricula(t.Matricula) :
                /\ dados_fluxo[k].Data = Data(4)
                /\ dados_fluxo[k].CargoAtual = 3
                /\ dados_fluxo[k].MesPromocao = Data(4)

\* the number of months a row draws income in: the index of its retirement
\* month, or the number of months emitted
MesesDeRenda(s) ==
    IF s.Aposentado THEN MesDe(s.DataAposentadoria) ELSE mes

\* the months elapsed of the records of a Matrícula in the MonthlyDetail
MesesNoDetalhe(matricula) ==
    LET grupo == GrupoDe(df_fluxo, matricula)
    IN  { grupo[k].MesesDesdeInicio : k \in DOMAIN grupo }

\* C37: in any run, when the month loop has ended, the months that have an
\* income record of a row are exactly 0..k-1, k the index of the month the
\* row retired in or, for a row still active, the horizon length, one
\* record a month; a row retired in the first month has none, and every row
\* that has a record has one of the first month.  The MonthlyDetail
\* returned holds the same months.
C37_MesesFormamPrefixo ==
    pc \in {"fim", "retorno"} =>
        /\ mes = anos * 12
        /\ \A i \in Linhas :
            LET s == servidores_atual[i]
                n == MesesDeRenda(s)
                registros == RegistrosDaMatricula(s.Matricula)
            IN  /\ n \in 0..mes
                /\ { MesDe(dados_fluxo[k].Data) : k \in registros } = 0..(n - 1)
                /\ Cardinality(registros) = n
                /\ registros # {} =>
                      \E k \in registros : dados_fluxo[k].Data = Data(0)
                /\ pc = "retorno" =>
                      /\ MesesNoDetalhe(s.Matricula) = 0..(n - 1)
                      /\ Len(GrupoDe(df_fluxo, s.Matricula)) = n

\* the end of a run with a row retired in the first month, which has no
\* record, and a row retired later, which has the records of the months
\* before
C37_Witness ==
    /\ pc = "retorno"
    /\ \E i \in Linhas :
        /\ servidores_atual[i].Aposentado
        /\ MesesDeRenda(servidores_atual[i]) = 0
        /\ RegistrosDaMatricula(servidores_atual[i].Matricula) = {}
    /\ \E i \in Linhas :
        /\ servidores_atual[i].Aposentado
        /\ MesesDeRenda(servidores_atual[i]) \in 1..(anos * 12 - 1)
        /\ Len(GrupoDe(df_fluxo, servidores_atual[i].Matricula))
             = MesesDeRenda(servidores_atual[i])

MesesDeAumento(grupo) ==
    { k \in DOMAIN grupo :
        grupo[k].CargoAtual >
            (IF k = 1 THEN grupo[k].CargoOriginal ELSE grupo[k - 1].CargoAtual) }

\* C39: when the records of a month are about to be emitted, the rows whose
\* rank rose in the month are the rows whose last-promotion date is the date
\* of the month; and in the Summary returned the promotion count of a row
\* is the number of months of the run in which its rank rose, a rise of
\* several ranks in one month counting once.
C39_ContagemDePromocoes ==
    /\ pc = "gerar" =>
        \A i \in Linhas :
            servidores_atual[i].CargoAtual > cargo_inicio_mes[i]
                <=> servidores_atual[i].MesPromocao = Data(mes)
    /\ pc = "retorno" =>
        \A k \in DOMAIN resumo_vpl :
            LET grupo == GrupoDe(df_fluxo, resumo_vpl[k].Matricula)
            IN  /\ resumo_vpl[k].NumeroPromocoes = Cardinality(MesesDeAumento(grupo))
                /\ \A j \in MesesDeAumento(grupo) :
                      grupo[j].MesPromocao = grupo[j].Data

\* the end of a run under the tenure policy in which a row rose by two
\* ranks or more in one month and by no rank in any other: its promotion
\* count is 1
C39_Witness ==
    /\ pc = "retorno"
    /\ estrategia = "cenario"
    /\ \E k \in DOMAIN resumo_vpl :
        LET grupo == GrupoDe(df_fluxo, resumo_vpl[k].Matricula)
        IN  /\ resumo_vpl[k].NumeroPromocoes = 1
            /\ Cardinality(MesesDeAumento(grupo)) = 1
            /\ resumo_vpl[k].CargoAtual >= resumo_vpl[k].CargoOriginal + 2

====
